---- MODULE Spec2Model ----
(***************************************************************************)
(* Model of ezo-ec-rs: the I2C command/response engine for the EC EZO      *)
(* conductivity chip.                                                      *)
(*                                                                         *)
(* Strings are sequences of character codes (a byte string is a sequence   *)
(* of numbers 0..255), so that case conversion, nul termination and the    *)
(* high-bit mask are things the model computes.  Every string literal of   *)
(* the source is written out as its codes, with the text in a comment.     *)
(***************************************************************************)
EXTENDS Integers, Sequences, FiniteSets, TLC

(***************************************************************************)
(* Option<T>                                                               *)
(***************************************************************************)
None == <<>>

Some(x) == <<x>>

(***************************************************************************)
(* Bounds of the model                                                     *)
(***************************************************************************)
\* longest device-written payload prefix that is enumerated byte by byte
MaxPayload == 2

(***************************************************************************)
(* Text helpers                                                            *)
(***************************************************************************)
\* decimal digits of a natural number, as `{}` prints an unsigned integer
RECURSIVE Dec(_)
Dec(n) == IF n < 10 THEN <<48 + n>> ELSE Dec(n \div 10) \o <<48 + (n % 10)>>

\* An f64 is modelled by the number m of thousandths it holds (value
\* m/1000).  The values that are formatted are multiples of a quarter: they
\* are exact in binary, so printing them involves no rounding.
\* `{}` of an f64 prints the shortest decimal that reads back: 84.0 -> "84"
F64Display(m) ==
    LET a    == IF m < 0 THEN 0 - m ELSE m
        sign == IF m < 0 THEN <<45>> ELSE <<>>
        frac == CASE a % 1000 = 0   -> <<>>
                  [] a % 1000 = 250 -> <<46,50,53>>          \* ".25"
                  [] a % 1000 = 500 -> <<46,53>>             \* ".5"
                  [] a % 1000 = 750 -> <<46,55,53>>          \* ".75"
    IN  sign \o Dec(a \div 1000) \o frac

\* `{:.*}` with precision prec (at most 3): exactly prec decimals
F64Fixed(m, prec) ==
    LET a    == IF m < 0 THEN 0 - m ELSE m
        sign == IF m < 0 THEN <<45>> ELSE <<>>
        frac == <<48 + ((a % 1000) \div 100), 48 + (((a % 1000) \div 10) % 10), 48 + (a % 10)>>
    IN  sign \o Dec(a \div 1000) \o <<46>> \o SubSeq(frac, 1, prec)

(***************************************************************************)
(* lib.rs: CommandOptions and its builder                                  *)
(***************************************************************************)
MAX_RESPONSE_LENGTH == 399

BpsRate == {300, 1200, 2400, 9600, 19200, 38400, 57600, 115200}

CommandResponse ==
    {"Ack", "CalibrationState", "CompensationValue", "DeviceInformation",
     "Export", "ExportInfo", "LedState", "OutputState", "ProtocolLockState",
     "ProbeTypeState", "Reading", "Status"}

\* CommandOptions::default()
CommandOptionsDefault == [command |-> <<>>, delay |-> None, response |-> None]

set_command(opts, command_str) == [opts EXCEPT !.command = command_str]

set_delay(opts, delay) == [opts EXCEPT !.delay = Some(delay)]

set_response(opts, response) == [opts EXCEPT !.response = Some(response)]

finish(opts) == opts

(***************************************************************************)
(* lib.rs: ConductivityCommand and I2cCommand::build.  A command is a      *)
(* record [tag, arg]; arg is the tuple of the variant's parameters.        *)
(* build answers <<"Ok", options>>, or <<"Panic">> where the source is     *)
(* unimplemented!().                                                       *)
(***************************************************************************)
Cmd(tag) == [tag |-> tag, arg |-> <<>>]

Cmd1(tag, x) == [tag |-> tag, arg |-> <<x>>]

\* Import(String): arg is the string itself
CmdS(tag, s) == [tag |-> tag, arg |-> s]

build(c) ==
    LET opts == CommandOptionsDefault
        Ack(command_str, delay) ==
            <<"Ok", finish(set_response(set_delay(set_command(opts, command_str), delay), "Ack"))>>
        Resp(command_str, delay, response) ==
            <<"Ok", finish(set_response(set_delay(set_command(opts, command_str), delay), response))>>
        NoResp(command_str, delay) ==
            <<"Ok", finish(set_delay(set_command(opts, command_str), delay))>>
    IN CASE c.tag = "Baud" ->
              \* format!("Baud,{}\0", rate)
              <<"Ok", finish(set_command(opts, <<66,97,117,100,44>> \o Dec(c.arg[1]) \o <<0>>))>>
         [] c.tag = "CalibrationDry" ->
              Ack(<<67,97,108,44,100,114,121,0>>, 800)                  \* "Cal,dry\0"
         [] c.tag = "CalibrationSinglePoint" ->
              Ack(<<67,97,108,44>> \o F64Display(c.arg[1]) \o <<0>>, 800)  \* "Cal,{}\0"
         [] c.tag = "CalibrationLow" ->
              Ack(<<67,97,108,44,108,111,119,44>> \o F64Display(c.arg[1]) \o <<0>>, 800)  \* "Cal,low,{}\0"
         [] c.tag = "CalibrationHigh" ->
              Ack(<<67,97,108,44,104,105,103,104,44>> \o F64Display(c.arg[1]) \o <<0>>, 800)  \* "Cal,high,{}\0"
         [] c.tag = "CalibrationClear" ->
              Ack(<<67,97,108,44,99,108,101,97,114,0>>, 300)            \* "Cal,clear\0"
         [] c.tag = "CalibrationState" ->
              Resp(<<67,97,108,44,63,0>>, 300, "CalibrationState")      \* "Cal,?\0"
         [] c.tag = "Export" ->
              Resp(<<69,120,112,111,114,116,0>>, 300, "Export")         \* "Export\0"
         [] c.tag = "ExportInfo" ->
              Resp(<<69,120,112,111,114,116,44,63,0>>, 300, "ExportInfo")  \* "Export,?\0"
         [] c.tag = "Import" ->
              NoResp(<<73,109,112,111,114,116,44>> \o c.arg \o <<0>>, 300)  \* "Import,{}\0"
         [] c.tag = "Factory" ->
              <<"Ok", finish(set_command(opts, <<70,97,99,116,111,114,121,0>>))>>  \* "Factory\0"
         [] c.tag = "Find" ->
              Ack(<<70,0>>, 300)                                        \* "F\0"
         [] c.tag = "DeviceInformation" ->
              Resp(<<73,0>>, 300, "DeviceInformation")                  \* "I\0"
         [] c.tag = "DeviceAddress" ->
              NoResp(<<73,50,67,44>> \o Dec(c.arg[1]) \o <<0>>, 300)    \* "I2C,{}\0"
         [] c.tag = "ProbeTypePointOne" ->
              Ack(<<75,44,48,46,49,0>>, 300)                            \* "K,0.1\0"
         [] c.tag = "ProbeTypeOne" ->
              Ack(<<75,44,49,46,48,0>>, 300)                            \* "K,1.0\0"
         [] c.tag = "ProbeTypeTen" ->
              Ack(<<75,44,49,48,46,48,0>>, 300)                         \* "K,10.0\0"
         [] c.tag = "ProbeTypeState" ->
              Resp(<<75,44,63,0>>, 600, "ProbeTypeState")               \* "K,?\0"
         [] OTHER -> <<"Panic">>                                        \* unimplemented!()

(***************************************************************************)
(* command.rs: the command types that define_command! declares.  Each      *)
(* invocation gives the type, the expression of get_command_string, the    *)
(* delay of get_delay and the response (none, Ack, or a type of            *)
(* response.rs with its parse call).                                       *)
(***************************************************************************)
MAX_DATA == 401

\* cmd.get_command_string()
get_command_string(c) ==
    CASE c.tag = "Baud" ->
           <<66,65,85,68,44>> \o Dec(c.arg[1])    \* format!("BAUD,{}", cmd.parse())
      [] c.tag = "CalibrationDry" ->
           <<67,65,76,44,68,82,89>>    \* "CAL,DRY"
      [] c.tag = "CalibrationOnePoint" ->
           <<67,65,76,44>> \o F64Fixed(c.arg[1], 2)    \* format!("CAL,{:.*}", 2, cmd)
      [] c.tag = "CalibrationLow" ->
           <<67,65,76,44,76,79,87,44>> \o F64Fixed(c.arg[1], 2)    \* format!("CAL,LOW,{:.*}", 2, cmd)
      [] c.tag = "CalibrationHigh" ->
           <<67,65,76,44,72,73,71,72,44>> \o F64Fixed(c.arg[1], 2)    \* format!("CAL,HIGH,{:.*}", 2, cmd)
      [] c.tag = "CalibrationClear" ->
           <<67,65,76,44,67,76,69,65,82>>    \* "CAL,CLEAR"
      [] c.tag = "CalibrationState" ->
           <<67,65,76,44,63>>    \* "CAL,?"
      [] c.tag = "Export" ->
           <<69,88,80,79,82,84>>    \* "EXPORT"
      [] c.tag = "ExportInfo" ->
           <<69,88,80,79,82,84,44,63>>    \* "EXPORT,?"
      [] c.tag = "Import" ->
           <<73,77,80,79,82,84,44>> \o c.arg    \* format!("IMPORT,{}", cmd)
      [] c.tag = "Factory" ->
           <<70,65,67,84,79,82,89>>    \* "FACTORY"
      [] c.tag = "Find" ->
           <<70>>    \* "F"
      [] c.tag = "DeviceAddress" ->
           <<73,50,67,44>> \o Dec(c.arg[1])    \* format!("I2C,{}", cmd)
      [] c.tag = "DeviceInformation" ->
           <<73>>    \* "I"
      [] c.tag = "LedOn" ->
           <<76,44,49>>    \* "L,1"
      [] c.tag = "LedOff" ->
           <<76,44,48>>    \* "L,0"
      [] c.tag = "LedState" ->
           <<76,44,63>>    \* "L,?"
      [] c.tag = "ProbeTypePointOne" ->
           <<75,44,48,46,49>>    \* "K,0.1"
      [] c.tag = "ProbeTypeOne" ->
           <<75,44,49,46,48>>    \* "K,1.0"
      [] c.tag = "ProbeTypeTen" ->
           <<75,44,49,48,46,48>>    \* "K,10.0"
      [] c.tag = "ProbeTypeState" ->
           <<75,44,63>>    \* "K,?"
      [] c.tag = "ProtocolLockEnable" ->
           <<80,76,79,67,75,44,49>>    \* "PLOCK,1"
      [] c.tag = "ProtocolLockDisable" ->
           <<80,76,79,67,75,44,48>>    \* "PLOCK,0"
      [] c.tag = "ProtocolLockState" ->
           <<80,76,79,67,75,44,63>>    \* "PLOCK,?"
      [] c.tag = "Reading" ->
           <<82>>    \* "R"
      [] c.tag = "OutputDisableConductivity" ->
           <<79,44,69,67,44,48>>    \* "O,EC,0"
      [] c.tag = "OutputEnableConductivity" ->
           <<79,44,69,67,44,49>>    \* "O,EC,1"
      [] c.tag = "OutputDisableTds" ->
           <<79,44,84,68,83,44,48>>    \* "O,TDS,0"
      [] c.tag = "OutputEnableTds" ->
           <<79,44,84,68,83,44,49>>    \* "O,TDS,1"
      [] c.tag = "OutputDisableSalinity" ->
           <<79,44,83,44,48>>    \* "O,S,0"
      [] c.tag = "OutputEnableSalinity" ->
           <<79,44,83,44,49>>    \* "O,S,1"
      [] c.tag = "OutputDisableSpecificGravity" ->
           <<79,44,83,71,44,48>>    \* "O,SG,0"
      [] c.tag = "OutputEnableSpecificGravity" ->
           <<79,44,83,71,44,49>>    \* "O,SG,1"
      [] c.tag = "OutputState" ->
           <<79,44,63>>    \* "O,?"
      [] c.tag = "Status" ->
           <<83,84,65,84,85,83>>    \* "STATUS"
      [] c.tag = "Sleep" ->
           <<83,76,69,69,80>>    \* "SLEEP"
      [] c.tag = "TemperatureCompensation" ->
           <<84,44>> \o F64Fixed(c.arg[1], 3)    \* format!("T,{:.*}", 3, cmd)
      [] c.tag = "CompensatedTemperatureValue" ->
           <<84,44,63>>    \* "T,?"

\* get_delay with the delays lib.rs gives the K commands: 300 for the three
\* probe types and 600 for the query
get_delay_as_build(c) ==
    CASE c.tag \in {"Baud", "Factory", "Sleep"} -> 0
      [] c.tag \in {"CalibrationDry", "CalibrationOnePoint", "CalibrationLow",
                    "CalibrationHigh"} -> 800
      [] c.tag \in {"Reading", "ProbeTypeState"} -> 600
      [] OTHER -> 300

\* cmd.get_delay()
get_delay(c) ==
    CASE c.tag = "Baud" -> 0
      [] c.tag = "CalibrationDry" -> 800
      [] c.tag = "CalibrationOnePoint" -> 800
      [] c.tag = "CalibrationLow" -> 800
      [] c.tag = "CalibrationHigh" -> 800
      [] c.tag = "CalibrationClear" -> 300
      [] c.tag = "CalibrationState" -> 300
      [] c.tag = "Export" -> 300
      [] c.tag = "ExportInfo" -> 300
      [] c.tag = "Import" -> 300
      [] c.tag = "Factory" -> 0
      [] c.tag = "Find" -> 300
      [] c.tag = "DeviceAddress" -> 300
      [] c.tag = "DeviceInformation" -> 300
      [] c.tag = "LedOn" -> 300
      [] c.tag = "LedOff" -> 300
      [] c.tag = "LedState" -> 300
      [] c.tag = "ProbeTypePointOne" -> 600
      [] c.tag = "ProbeTypeOne" -> 600
      [] c.tag = "ProbeTypeTen" -> 600
      [] c.tag = "ProbeTypeState" -> 300
      [] c.tag = "ProtocolLockEnable" -> 300
      [] c.tag = "ProtocolLockDisable" -> 300
      [] c.tag = "ProtocolLockState" -> 300
      [] c.tag = "Reading" -> 600
      [] c.tag = "OutputDisableConductivity" -> 300
      [] c.tag = "OutputEnableConductivity" -> 300
      [] c.tag = "OutputDisableTds" -> 300
      [] c.tag = "OutputEnableTds" -> 300
      [] c.tag = "OutputDisableSalinity" -> 300
      [] c.tag = "OutputEnableSalinity" -> 300
      [] c.tag = "OutputDisableSpecificGravity" -> 300
      [] c.tag = "OutputEnableSpecificGravity" -> 300
      [] c.tag = "OutputState" -> 300
      [] c.tag = "Status" -> 300
      [] c.tag = "Sleep" -> 0
      [] c.tag = "TemperatureCompensation" -> 300
      [] c.tag = "CompensatedTemperatureValue" -> 300

\* Command::Response: "()" without a response, "Ack", or the response type
ResponseType(c) ==
    CASE c.tag = "Baud" -> "()"
      [] c.tag = "CalibrationDry" -> "Ack"
      [] c.tag = "CalibrationOnePoint" -> "Ack"
      [] c.tag = "CalibrationLow" -> "Ack"
      [] c.tag = "CalibrationHigh" -> "Ack"
      [] c.tag = "CalibrationClear" -> "Ack"
      [] c.tag = "CalibrationState" -> "CalibrationStatus"
      [] c.tag = "Export" -> "Exported"
      [] c.tag = "ExportInfo" -> "ExportedInfo"
      [] c.tag = "Import" -> "Ack"
      [] c.tag = "Factory" -> "()"
      [] c.tag = "Find" -> "()"
      [] c.tag = "DeviceAddress" -> "()"
      [] c.tag = "DeviceInformation" -> "DeviceInfo"
      [] c.tag = "LedOn" -> "Ack"
      [] c.tag = "LedOff" -> "Ack"
      [] c.tag = "LedState" -> "LedStatus"
      [] c.tag = "ProbeTypePointOne" -> "Ack"
      [] c.tag = "ProbeTypeOne" -> "Ack"
      [] c.tag = "ProbeTypeTen" -> "Ack"
      [] c.tag = "ProbeTypeState" -> "ProbeType"
      [] c.tag = "ProtocolLockEnable" -> "Ack"
      [] c.tag = "ProtocolLockDisable" -> "Ack"
      [] c.tag = "ProtocolLockState" -> "ProtocolLockStatus"
      [] c.tag = "Reading" -> "ProbeReading"
      [] c.tag = "OutputDisableConductivity" -> "Ack"
      [] c.tag = "OutputEnableConductivity" -> "Ack"
      [] c.tag = "OutputDisableTds" -> "Ack"
      [] c.tag = "OutputEnableTds" -> "Ack"
      [] c.tag = "OutputDisableSalinity" -> "Ack"
      [] c.tag = "OutputEnableSalinity" -> "Ack"
      [] c.tag = "OutputDisableSpecificGravity" -> "Ack"
      [] c.tag = "OutputEnableSpecificGravity" -> "Ack"
      [] c.tag = "OutputState" -> "OutputStringStatus"
      [] c.tag = "Status" -> "DeviceStatus"
      [] c.tag = "Sleep" -> "()"
      [] c.tag = "TemperatureCompensation" -> "Ack"
      [] c.tag = "CompensatedTemperatureValue" -> "CompensationValue"

(***************************************************************************)
(* std: str and number parsing used by response.rs                         *)
(***************************************************************************)
\* response.starts_with(p)
starts_with(s, p) == Len(s) >= Len(p) /\ SubSeq(s, 1, Len(p)) = p

\* response.get(n..).unwrap(), called only after starts_with of n bytes
get_from(s, n) == SubSeq(s, n + 1, Len(s))

\* s.split(sep) collected: the pieces between the separators, at least one
split(s, sep) ==
    LET at == {i \in 1..Len(s) : s[i] = sep}
        n  == Cardinality(at)
        nth(k) == IF k = 0 THEN 0
                  ELSE IF k = n + 1 THEN Len(s) + 1
                  ELSE CHOOSE i \in at : Cardinality({j \in at : j < i}) = k - 1
    IN  [k \in 1..(n + 1) |-> SubSeq(s, nth(k - 1) + 1, nth(k) - 1)]

\* the k-th call of split.next()
next(tokens, k) == IF k <= Len(tokens) THEN Some(tokens[k]) ELSE None

\* the number a string of decimal digits denotes
RECURSIVE DecimalValue(_)
DecimalValue(str) ==
    IF str = <<>> THEN 0
    ELSE 10 * DecimalValue(SubSeq(str, 1, Len(str) - 1)) + (str[Len(str)] - 48)

IsDigits(str) == str # <<>> /\ \A i \in 1..Len(str) : str[i] \in 48..57

to_ascii_lowercase(s) == [i \in 1..Len(s) |-> IF s[i] \in 65..90 THEN s[i] + 32 ELSE s[i]]

\* the digits of a number without the zeros in front
strip_leading_zeros(str) ==
    LET nz == {i \in 1..Len(str) : str[i] # 48}
    IN  IF nz = {} THEN <<>>
        ELSE SubSeq(str, CHOOSE i \in nz : \A j \in nz : i <= j, Len(str))

\* the digits of a number without the zeros at the end
strip_trailing_zeros(str) ==
    LET nz == {i \in 1..Len(str) : str[i] # 48}
    IN  IF nz = {} THEN <<>>
        ELSE SubSeq(str, 1, CHOOSE i \in nz : \A j \in nz : i >= j)

\* a finite f64 as the decimal it was read from: sign * 0.d1d2..dn * 10^e
\* with d1 and dn not zero; zero is the same value whatever its sign
F64Decimal(neg, digits, e) ==
    LET lead == strip_leading_zeros(digits)
        sig  == strip_trailing_zeros(lead)
    IN  IF sig = <<>> THEN <<"num", 0, <<>>, 0>>
        ELSE <<"num", IF neg THEN 0 - 1 ELSE 1, sig, e + Len(lead)>>

\* the f64 that is the integer m times 10^e
F64(m, e) == F64Decimal(m < 0, Dec(IF m < 0 THEN 0 - m ELSE m), e)

\* f64::from_str: Sign? ('inf' | 'infinity' | 'nan' | Number), with
\* Number ::= (Digit+ | Digit+ '.' Digit* | Digit* '.' Digit+) Exp? and
\* Exp ::= 'e' Sign? Digit+.  None is the parse error.  A number is kept as
\* the decimal that was written, which is the f64 for up to 15 significant
\* digits; beyond the range of f64 it is infinite or zero.
F64FromStr(s) ==
    LET signed == s # <<>> /\ s[1] \in {43, 45}
        neg    == s # <<>> /\ s[1] = 45
        body   == IF signed THEN Tail(s) ELSE s
        low    == to_ascii_lowercase(body)
        epos   == {i \in 1..Len(body) : body[i] \in {69, 101}}
        e      == IF epos = {} THEN Len(body) + 1
                  ELSE CHOOSE i \in epos : \A j \in epos : i <= j
        mant   == SubSeq(body, 1, e - 1)
        exp    == SubSeq(body, e + 1, Len(body))
        expneg == exp # <<>> /\ exp[1] = 45
        expdig == IF exp # <<>> /\ exp[1] \in {43, 45} THEN Tail(exp) ELSE exp
        expsig == strip_leading_zeros(expdig)
        dots   == {i \in 1..Len(mant) : mant[i] = 46}
        dot    == IF dots = {} THEN Len(mant) + 1 ELSE CHOOSE i \in dots : TRUE
        int    == SubSeq(mant, 1, dot - 1)
        frac   == SubSeq(mant, dot + 1, Len(mant))
        digits == int \o frac
        wellformed ==
            /\ Cardinality(dots) <= 1
            /\ IsDigits(digits)
            /\ epos # {} => IsDigits(expdig)
        x == IF Len(expsig) > 4 THEN 10000 ELSE DecimalValue(expsig)
        value == F64Decimal(neg, digits, (IF expneg THEN 0 - x ELSE x) - Len(digits) + Len(int))
    IN  IF low = <<105,110,102>> \/ low = <<105,110,102,105,110,105,116,121>>
        THEN Some(<<"inf", IF neg THEN 0 - 1 ELSE 1, <<>>, 0>>)
        ELSE IF low = <<110,97,110>> THEN Some(<<"nan", 0, <<>>, 0>>)
        ELSE IF ~wellformed THEN None
        ELSE IF value[2] # 0 /\ value[4] > 309 THEN Some(<<"inf", value[2], <<>>, 0>>)
        ELSE IF value[4] < 0 - 323 THEN Some(<<"num", 0, <<>>, 0>>)
        ELSE Some(value)

U16FromStr_as_u8(s) ==
    LET body  == IF s # <<>> /\ s[1] = 43 THEN Tail(s) ELSE s
        sig   == strip_leading_zeros(body)
    IN  IF IsDigits(body) /\ Len(sig) <= 3 /\ DecimalValue(sig) <= 255
        THEN Some(DecimalValue(sig))
        ELSE None

\* u16::from_str: an optional '+', then digits whose value fits 16 bits
U16FromStr(s) ==
    LET body  == IF s # <<>> /\ s[1] = 43 THEN Tail(s) ELSE s
        sig   == strip_leading_zeros(body)
    IN  IF IsDigits(body) /\ Len(sig) <= 5 /\ DecimalValue(sig) <= 65535
        THEN Some(DecimalValue(sig))
        ELSE None

(***************************************************************************)
(* response.rs: the decoders.  A typed value is <<type, variant, fields>>  *)
(***************************************************************************)
ParseOk(v) == [ok |-> TRUE, err |-> "", val |-> v]

ErrorKind(kind) == [ok |-> FALSE, err |-> kind, val |-> <<>>]

ParseErr == ErrorKind("ResponseParse")

\* CalibrationStatus::parse without the look at the field after the digit
CalibrationStatus_parse_no_end(response) ==
    IF starts_with(response, <<63,67,65,76,44>>)
    THEN LET tokens == split(get_from(response, 5), 44)
             first  == next(tokens, 1)
         IN  IF first \notin {Some(<<50>>), Some(<<49>>), Some(<<48>>)} THEN ParseErr
             ELSE IF first = Some(<<50>>) THEN ParseOk(<<"CalibrationStatus", "TwoPoint", <<>>>>)
             ELSE IF first = Some(<<49>>) THEN ParseOk(<<"CalibrationStatus", "OnePoint", <<>>>>)
             ELSE ParseOk(<<"CalibrationStatus", "NotCalibrated", <<>>>>)
    ELSE ParseErr

CalibrationStatus_parse(response) ==
    IF starts_with(response, <<63,67,65,76,44>>)
    THEN LET tokens == split(get_from(response, 5), 44)
             first  == next(tokens, 1)
         IN  IF first \notin {Some(<<50>>), Some(<<49>>), Some(<<48>>)} THEN ParseErr
             ELSE IF next(tokens, 2) # None THEN ParseErr
             ELSE IF first = Some(<<50>>) THEN ParseOk(<<"CalibrationStatus", "TwoPoint", <<>>>>)
             ELSE IF first = Some(<<49>>) THEN ParseOk(<<"CalibrationStatus", "OnePoint", <<>>>>)
             ELSE ParseOk(<<"CalibrationStatus", "NotCalibrated", <<>>>>)
    ELSE ParseErr

CompensationValue_parse(response) ==
    IF starts_with(response, <<63,84,44>>)
    THEN LET val == F64FromStr(get_from(response, 3))
         IN  IF val = None THEN ParseErr
             ELSE ParseOk(<<"CompensationValue", "", <<val[1]>>>>)
    ELSE ParseErr

\* DeviceInfo::parse that lets a third field pass
DeviceInfo_parse_no_end(response) ==
    IF starts_with(response, <<63,73,44>>)
    THEN LET tokens == split(get_from(response, 3), 44)
         IN  IF next(tokens, 1) = None THEN ParseErr
             ELSE IF next(tokens, 2) = None THEN ParseErr
             ELSE ParseOk(<<"DeviceInfo", "", <<tokens[1], tokens[2]>>>>)
    ELSE ParseErr

DeviceInfo_parse(response) ==
    IF starts_with(response, <<63,73,44>>)
    THEN LET tokens == split(get_from(response, 3), 44)
         IN  IF next(tokens, 1) = None THEN ParseErr
             ELSE IF next(tokens, 2) = None THEN ParseErr
             ELSE IF next(tokens, 3) # None THEN ParseErr
             ELSE ParseOk(<<"DeviceInfo", "", <<tokens[1], tokens[2]>>>>)
    ELSE ParseErr

\* DeviceStatus::parse with any other code read as Unknown
DeviceStatus_parse_any_code(response) ==
    IF starts_with(response, <<63,83,84,65,84,85,83,44>>)
    THEN LET tokens == split(get_from(response, 8), 44)
             first  == next(tokens, 1)
             restart_reason ==
                 CASE first = Some(<<80>>) -> "PoweredOff"
                   [] first = Some(<<83>>) -> "SoftwareReset"
                   [] first = Some(<<66>>) -> "BrownOut"
                   [] first = Some(<<87>>) -> "Watchdog"
                   [] OTHER -> "Unknown"
             voltage == IF next(tokens, 2) = None THEN None ELSE F64FromStr(tokens[2])
         IN  IF voltage = None THEN ParseErr
             ELSE IF next(tokens, 3) # None THEN ParseErr
             ELSE ParseOk(<<"DeviceStatus", restart_reason, <<voltage[1]>>>>)
    ELSE ParseErr

DeviceStatus_parse(response) ==
    IF starts_with(response, <<63,83,84,65,84,85,83,44>>)
    THEN LET tokens == split(get_from(response, 8), 44)
             first  == next(tokens, 1)
             restart_reason ==
                 CASE first = Some(<<80>>) -> "PoweredOff"
                   [] first = Some(<<83>>) -> "SoftwareReset"
                   [] first = Some(<<66>>) -> "BrownOut"
                   [] first = Some(<<87>>) -> "Watchdog"
                   [] first = Some(<<85>>) -> "Unknown"
                   [] OTHER -> ""
             voltage == IF next(tokens, 2) = None THEN None ELSE F64FromStr(tokens[2])
         IN  IF restart_reason = "" THEN ParseErr
             ELSE IF voltage = None THEN ParseErr
             ELSE IF next(tokens, 3) # None THEN ParseErr
             ELSE ParseOk(<<"DeviceStatus", restart_reason, <<voltage[1]>>>>)
    ELSE ParseErr

\* Exported::parse with the range of lengths closed at 13
Exported_parse_up_to_13(response) ==
    IF starts_with(response, <<42>>)
    THEN IF response = <<42,68,79,78,69>> THEN ParseOk(<<"Exported", "Done", <<>>>>) ELSE ParseErr
    ELSE IF Len(response) \in 1..13
         THEN ParseOk(<<"Exported", "ExportString", <<response>>>>)
         ELSE ParseErr

Exported_parse(response) ==
    IF starts_with(response, <<42>>)
    THEN IF response = <<42,68,79,78,69>> THEN ParseOk(<<"Exported", "Done", <<>>>>) ELSE ParseErr
    ELSE IF Len(response) \in 1..12
         THEN ParseOk(<<"Exported", "ExportString", <<response>>>>)
         ELSE ParseErr

\* ExportedInfo::parse with numbers that wrap around at 16 bits
ExportedInfo_parse_wrapping(response) ==
    IF starts_with(response, <<63,69,88,80,79,82,84,44>>)
    THEN LET tokens == split(get_from(response, 8), 44)
             wrap(s) == IF IsDigits(s) /\ Len(s) <= 6 THEN Some(DecimalValue(s) % 65536) ELSE None
             lines  == IF next(tokens, 1) = None THEN None ELSE wrap(tokens[1])
             total_bytes == IF next(tokens, 2) = None THEN None ELSE wrap(tokens[2])
         IN  IF lines = None THEN ParseErr
             ELSE IF total_bytes = None THEN ParseErr
             ELSE IF next(tokens, 3) # None THEN ParseErr
             ELSE ParseOk(<<"ExportedInfo", "", <<lines[1], total_bytes[1]>>>>)
    ELSE ParseErr

ExportedInfo_parse(response) ==
    IF starts_with(response, <<63,69,88,80,79,82,84,44>>)
    THEN LET tokens == split(get_from(response, 8), 44)
             lines  == IF next(tokens, 1) = None THEN None ELSE U16FromStr(tokens[1])
             total_bytes == IF next(tokens, 2) = None THEN None ELSE U16FromStr(tokens[2])
         IN  IF lines = None THEN ParseErr
             ELSE IF total_bytes = None THEN ParseErr
             ELSE IF next(tokens, 3) # None THEN ParseErr
             ELSE ParseOk(<<"ExportedInfo", "", <<lines[1], total_bytes[1]>>>>)
    ELSE ParseErr

ProtocolLockStatus_parse(response) ==
    IF starts_with(response, <<63,80,76,79,67,75,44>>)
    THEN LET tokens == split(get_from(response, 7), 44)
             first  == next(tokens, 1)
         IN  IF first \notin {Some(<<49>>), Some(<<48>>)} THEN ParseErr
             ELSE IF next(tokens, 2) # None THEN ParseErr
             ELSE IF first = Some(<<49>>) THEN ParseOk(<<"ProtocolLockStatus", "On", <<>>>>)
             ELSE ParseOk(<<"ProtocolLockStatus", "Off", <<>>>>)
    ELSE ParseErr

\* LedStatus::parse that looks at the first field only
LedStatus_parse_first_field(response) ==
    IF starts_with(response, <<63,76,44>>)
    THEN LET rest == split(get_from(response, 3), 44)[1]
         IN  IF rest = <<49>> THEN ParseOk(<<"LedStatus", "On", <<>>>>)
             ELSE IF rest = <<48>> THEN ParseOk(<<"LedStatus", "Off", <<>>>>)
             ELSE ParseErr
    ELSE ParseErr

LedStatus_parse(response) ==
    IF starts_with(response, <<63,76,44>>)
    THEN LET rest == get_from(response, 3)
         IN  IF rest = <<49>> THEN ParseOk(<<"LedStatus", "On", <<>>>>)
             ELSE IF rest = <<48>> THEN ParseOk(<<"LedStatus", "Off", <<>>>>)
             ELSE ParseErr
    ELSE ParseErr

ProbeType_parse(response) ==
    IF starts_with(response, <<63,75,44>>)
    THEN LET tokens == split(get_from(response, 3), 44)
             first  == next(tokens, 1)
         IN  IF first \notin {Some(<<48,46,49>>), Some(<<49,46,48>>), Some(<<49,48,46,48>>)} THEN ParseErr
             ELSE IF next(tokens, 2) # None THEN ParseErr
             ELSE IF first = Some(<<48,46,49>>) THEN ParseOk(<<"ProbeType", "PointOne", <<>>>>)
             ELSE IF first = Some(<<49,46,48>>) THEN ParseOk(<<"ProbeType", "One", <<>>>>)
             ELSE ParseOk(<<"ProbeType", "Ten", <<>>>>)
    ELSE ParseErr

\* fields: electric_conductivity, total_dissolved_solids, salinity,
\* specific_gravity; each match arm sets one field to On
OutputStringStatus_parse(response) ==
    IF starts_with(response, <<63,79,44>>)
    THEN LET tokens == split(get_from(response, 3), 44)
             _first  == next(tokens, 1)
             _second == next(tokens, 2)
             _third  == next(tokens, 3)
             _fourth == next(tokens, 4)
             set == (IF _first # None THEN {tokens[1]} ELSE {})
                    \cup (IF _second # None THEN {tokens[2]} ELSE {})
                    \cup (IF _third # None THEN {tokens[3]} ELSE {})
                    \cup (IF _fourth # None THEN {tokens[4]} ELSE {})
             Status(name) == IF name \in set THEN "On" ELSE "Off"
         IN  IF _first \notin {Some(<<69,67>>), Some(<<84,68,83>>), Some(<<83>>), Some(<<83,71>>),
                               Some(<<78,111,32,111,117,116,112,117,116>>), None} THEN ParseErr
             ELSE IF _second \notin {Some(<<84,68,83>>), Some(<<83>>), Some(<<83,71>>), None} THEN ParseErr
             ELSE IF _third \notin {Some(<<83>>), Some(<<83,71>>), None} THEN ParseErr
             ELSE IF _fourth \notin {Some(<<83,71>>), None} THEN ParseErr
             ELSE IF next(tokens, 5) # None THEN ParseErr
             ELSE ParseOk(<<"OutputStringStatus", "",
                            <<Status(<<69,67>>), Status(<<84,68,83>>), Status(<<83>>), Status(<<83,71>>)>>>>)
    ELSE ParseErr

\* ProbeReading::parse with an empty field read as 0.0
ProbeReading_parse_empty_is_zero(response) ==
    LET tokens == split(response, 44)
        f(k)   == IF tokens[k] = <<>> THEN Some(F64(0, 0)) ELSE F64FromStr(tokens[k])
    IN  IF f(1) = None THEN ParseErr
        ELSE IF next(tokens, 2) = None
             THEN ParseOk(<<"ProbeReading", "OneParameter", <<f(1)[1]>>>>)
        ELSE IF f(2) = None THEN ParseErr
        ELSE IF next(tokens, 3) = None
             THEN ParseOk(<<"ProbeReading", "TwoParameters", <<f(1)[1], f(2)[1]>>>>)
        ELSE IF f(3) = None THEN ParseErr
        ELSE IF next(tokens, 4) = None
             THEN ParseOk(<<"ProbeReading", "ThreeParameters", <<f(1)[1], f(2)[1], f(3)[1]>>>>)
        ELSE IF f(4) = None THEN ParseErr
        ELSE IF next(tokens, 5) # None THEN ParseErr
        ELSE ParseOk(<<"ProbeReading", "FourParameters", <<f(1)[1], f(2)[1], f(3)[1], f(4)[1]>>>>)

ProbeReading_parse(response) ==
    LET tokens == split(response, 44)
        f(k)   == F64FromStr(tokens[k])
    IN  IF next(tokens, 1) = None THEN ParseOk(<<"ProbeReading", "None", <<>>>>)
        ELSE IF f(1) = None THEN ParseErr
        ELSE IF next(tokens, 2) = None
             THEN ParseOk(<<"ProbeReading", "OneParameter", <<f(1)[1]>>>>)
        ELSE IF f(2) = None THEN ParseErr
        ELSE IF next(tokens, 3) = None
             THEN ParseOk(<<"ProbeReading", "TwoParameters", <<f(1)[1], f(2)[1]>>>>)
        ELSE IF f(3) = None THEN ParseErr
        ELSE IF next(tokens, 4) = None
             THEN ParseOk(<<"ProbeReading", "ThreeParameters", <<f(1)[1], f(2)[1], f(3)[1]>>>>)
        ELSE IF f(4) = None THEN ParseErr
        ELSE IF next(tokens, 5) # None THEN ParseErr
        ELSE ParseOk(<<"ProbeReading", "FourParameters", <<f(1)[1], f(2)[1], f(3)[1], f(4)[1]>>>>)

(***************************************************************************)
(* std: iterator position, String::from_utf8                               *)
(***************************************************************************)
\* data_buffer.into_iter().position(|&x| x == 0): index of the first nul
position(b) ==
    IF \E i \in DOMAIN b : b[i] = 0
    THEN Some(CHOOSE i \in DOMAIN b : b[i] = 0 /\ \A j \in DOMAIN b : j < i => b[j] # 0)
    ELSE None

\* UTF-8: the number of bytes the lead byte x announces (0: x cannot start
\* a character), the values its second byte may take, and the code point
Utf8Width(x) ==
    CASE x < 128         -> 1
      [] x \in 194..223  -> 2
      [] x \in 224..239  -> 3
      [] x \in 240..244  -> 4
      [] OTHER           -> 0

Utf8Second(x) ==
    CASE x = 224 -> 160..191
      [] x = 237 -> 128..159
      [] x = 240 -> 144..191
      [] x = 244 -> 128..143
      [] OTHER   -> 128..191

Utf8CodePoint(b, i) ==
    LET x == b[i]
        w == Utf8Width(x)
    IN  CASE w = 1 -> x
          [] w = 2 -> (x - 192) * 64 + (b[i + 1] - 128)
          [] w = 3 -> (x - 224) * 4096 + (b[i + 1] - 128) * 64 + (b[i + 2] - 128)
          [] w = 4 -> (x - 240) * 262144 + (b[i + 1] - 128) * 4096
                        + (b[i + 2] - 128) * 64 + (b[i + 3] - 128)

\* The bytes b[lo..n) are well-formed UTF-8: they do not start inside a
\* character, and every byte that is not a continuation byte starts a
\* complete character that ends where the next one starts
Utf8Valid(b, lo, n) ==
    /\ lo < n => b[lo] \notin 128..191
    /\ \A i \in lo..(n - 1) :
          b[i] \notin 128..191 =>
             LET w == Utf8Width(b[i])
             IN  /\ w > 0
                 /\ i + w <= n
                 /\ w >= 2 => b[i + 1] \in Utf8Second(b[i])
                 /\ \A k \in 2..(w - 1) : b[i + k] \in 128..191
                 /\ i + w < n => b[i + w] \notin 128..191

\* the code points of the characters that start in b[lo..hi], in order
RECURSIVE Utf8Chars(_, _, _)
Utf8Chars(b, lo, hi) ==
    IF lo > hi THEN <<>>
    ELSE IF lo = hi
         THEN IF b[lo] \in 128..191 THEN <<>> ELSE <<Utf8CodePoint(b, lo)>>
         ELSE LET mid == (lo + hi) \div 2
              IN  Utf8Chars(b, lo, mid) \o Utf8Chars(b, mid + 1, hi)

\* String::from_utf8 of the bytes b[i..n): <<TRUE, code points>>, or
\* <<FALSE, <<>>>> when the bytes are not well-formed UTF-8
from_utf8(b, i, n) ==
    IF Utf8Valid(b, i, n) THEN <<TRUE, Utf8Chars(b, i, n - 1)>> ELSE <<FALSE, <<>>>>

(***************************************************************************)
(* The transport (i2cdev, external): what one write or read can answer.    *)
(* A read that succeeds fills the whole buffer: the status byte, a payload *)
(* prefix, and then a pattern the device repeats to the end of the buffer  *)
(* (nul padding, or padding without any nul).                              *)
(***************************************************************************)
StatusBytes == {0, 1, 2, 3, 254, 255}

\* nul, 'A', 'A' with the high bit set, and the two bytes of U+00E9
PayloadBytes == {0, 65, 193, 195, 169}

FillPatterns == {<<0>>, <<65>>, <<128>>, <<195, 169>>}

RECURSIVE SeqsUpTo(_, _)
SeqsUpTo(S, n) ==
    IF n = 0 THEN {<<>>}
    ELSE LET shorter == SeqsUpTo(S, n - 1)
         IN  shorter \cup {Append(p, x) : p \in shorter, x \in S}

DeviceBuffer(len, status, prefix, fill) ==
    [i \in 0..(len - 1) |->
        IF i = 0 THEN status
        ELSE IF i <= Len(prefix) THEN prefix[i]
        ELSE fill[((i - Len(prefix) - 1) % Len(fill)) + 1]]

\* every payload is enumerated under the status byte 1, the only one under
\* which the payload is looked at
ReadData(len) ==
    {DeviceBuffer(len, 1, p, f) : p \in SeqsUpTo(PayloadBytes, MaxPayload), f \in FillPatterns}
    \cup {DeviceBuffer(len, st, <<>>, f) : st \in StatusBytes, f \in FillPatterns}

(***************************************************************************)
(* lib.rs: CommandBuilder::run, one action per step of the function        *)
(***************************************************************************)
VARIABLES
    pc,            \* position inside run: "idle" before the first call
    self,          \* the CommandOptions run was called on
    data_buffer,   \* let mut data_buffer = [0u8; MAX_RESPONSE_LENGTH]
    data,          \* the payload extracted from the buffer (let data: String)
    result,        \* what run returned: None while it is running
    trace,         \* the transport calls and sleeps of this run, in order
    stdout,        \* the lines this run printed
    cmd,           \* command.rs: the command value at hand
    cmd_string,    \* what cmd.get_command_string() last returned, if called
    cmd_delay,     \* what cmd.get_delay() last returned, if called
    cmd_options,   \* lib.rs: what build() of the same command returned, if called
    call,          \* the from_str, parse or to_string call last made: function, type, argument
    ret            \* what that call returned

runVars == <<pc, self, data_buffer, data, result, trace, stdout>>

catVars == <<cmd, cmd_string, cmd_delay, cmd_options>>

callVars == <<call, ret>>

vars == <<pc, self, data_buffer, data, result, trace, stdout, cmd, cmd_string, cmd_delay,
          cmd_options, call, ret>>

\* no call of run has been made
RunIdle ==
    /\ pc = "idle"
    /\ self = CommandOptionsDefault
    /\ data_buffer = <<>>
    /\ data = <<>>
    /\ result = None
    /\ trace = <<>>
    /\ stdout = <<>>

\* no command of command.rs has been made
CatalogIdle ==
    /\ cmd = None
    /\ cmd_string = None
    /\ cmd_delay = None
    /\ cmd_options = None

\* no from_str, parse or to_string call has been made
CallIdle ==
    /\ call = None
    /\ ret = None

Ok == [ok |-> TRUE, err |-> ""]

Err(msg) == [ok |-> FALSE, err |-> msg]

EvWrite(bytes, ok) == [op |-> "write", bytes |-> bytes, ok |-> ok, ms |-> 0]

EvRead(ok) == [op |-> "read", bytes |-> <<>>, ok |-> ok, ms |-> 0]

EvSleep(ms) == [op |-> "sleep", bytes |-> <<>>, ok |-> TRUE, ms |-> ms]

Line(kind, text) == [line |-> kind, text |-> text]

ZeroBuffer(len) == [i \in 0..(len - 1) |-> 0]

\* The commands run is called with: implemented variants of every shape
\* (with and without a delay, with and without a response, each parameter)
RunCommands ==
    {Cmd1("Baud", 300), Cmd("CalibrationDry"), Cmd1("CalibrationSinglePoint", 84000),
     Cmd("CalibrationState"), Cmd("Export"), CmdS("Import", <<65>>), Cmd("Factory"),
     Cmd("Find"), Cmd("DeviceInformation"), Cmd1("DeviceAddress", 88),
     Cmd("ProbeTypeState")}

\* The options run is called on: the build of these commands, and options
\* put together with the public setters (a response without a delay)
RunOptions ==
    {build(c)[2] : c \in RunCommands}
    \cup {finish(set_response(set_command(CommandOptionsDefault, <<82,0>>), "Reading"))}

Init ==
    /\ RunIdle
    /\ CatalogIdle
    /\ CallIdle

\* Call with a buffer that is kept from the run before
CallKeepsBuffer(opts) ==
    /\ pc \in {"idle", "done"}
    /\ pc' = "write"
    /\ self' = opts
    /\ data_buffer' = IF pc = "done" THEN data_buffer ELSE ZeroBuffer(MAX_RESPONSE_LENGTH)
    /\ data' = <<>>
    /\ result' = None
    /\ trace' = <<>>
    /\ stdout' = <<Line("COMMAND", opts.command)>>
    /\ UNCHANGED catVars
    /\ UNCHANGED callVars

\* run is entered (lines 131-133): fresh buffer, the command is printed
Call(opts) ==
    /\ pc \in {"idle", "done"}
    /\ pc' = "write"
    /\ self' = opts
    /\ data_buffer' = ZeroBuffer(MAX_RESPONSE_LENGTH)
    /\ data' = <<>>
    /\ result' = None
    /\ trace' = <<>>
    /\ stdout' = <<Line("COMMAND", opts.command)>>
    /\ UNCHANGED catVars
    /\ UNCHANGED callVars

\* line 134: the first write
Write(ok) ==
    /\ pc = "write"
    /\ trace' = Append(trace, EvWrite(self.command, ok))
    /\ pc' = IF ok THEN "delay" ELSE "write_retry"
    /\ UNCHANGED <<self, data_buffer, data, result, stdout>>
    /\ UNCHANGED catVars
    /\ UNCHANGED callVars

\* WriteRetry with the second failure ignored: the run goes on
WriteRetryNoAbort(ok) ==
    /\ pc = "write_retry"
    /\ trace' = trace \o <<EvSleep(300), EvWrite(self.command, ok)>>
    /\ pc' = "delay"
    /\ UNCHANGED <<self, data_buffer, data, result, stdout>>
    /\ UNCHANGED catVars
    /\ UNCHANGED callVars

\* WriteRetry that, when the retry succeeds, goes straight to the read
WriteRetrySkipsDelay(ok) ==
    /\ pc = "write_retry"
    /\ trace' = trace \o <<EvSleep(300), EvWrite(self.command, ok)>>
    /\ IF ok
       THEN pc' = "read" /\ result' = result
       ELSE pc' = "done" /\ result' = Some(Err("Command could not be sent"))
    /\ UNCHANGED <<self, data_buffer, data, stdout>>
    /\ UNCHANGED catVars
    /\ UNCHANGED callVars

\* WriteRetry that backs off and writes once more when the retry fails
WriteRetryTwice(ok) ==
    /\ pc = "write_retry"
    /\ trace' = trace \o <<EvSleep(300), EvWrite(self.command, ok)>>
                      \o (IF ok THEN <<>> ELSE <<EvSleep(300), EvWrite(self.command, FALSE)>>)
    /\ IF ok
       THEN pc' = "delay" /\ result' = result
       ELSE pc' = "done" /\ result' = Some(Err("Command could not be sent"))
    /\ UNCHANGED <<self, data_buffer, data, stdout>>
    /\ UNCHANGED catVars
    /\ UNCHANGED callVars

\* lines 135-137: the backoff and the second write; its failure returns
WriteRetry(ok) ==
    /\ pc = "write_retry"
    /\ trace' = trace \o <<EvSleep(300), EvWrite(self.command, ok)>>
    /\ IF ok
       THEN pc' = "delay" /\ result' = result
       ELSE pc' = "done" /\ result' = Some(Err("Command could not be sent"))
    /\ UNCHANGED <<self, data_buffer, data, stdout>>
    /\ UNCHANGED catVars
    /\ UNCHANGED callVars

\* Delay that does not sleep
DelayNotSlept ==
    /\ pc = "delay"
    /\ trace' = trace
    /\ IF self.response # None
       THEN pc' = "read" /\ result' = result /\ stdout' = stdout
       ELSE pc' = "done" /\ result' = Some(Ok) /\ stdout' = Append(stdout, Line("", <<>>))
    /\ UNCHANGED <<self, data_buffer, data>>
    /\ UNCHANGED catVars
    /\ UNCHANGED callVars

\* lines 139-142, 170-171: the declared delay; without a response run is over
Delay ==
    /\ pc = "delay"
    /\ trace' = IF self.delay # None THEN Append(trace, EvSleep(self.delay[1])) ELSE trace
    /\ IF self.response # None
       THEN pc' = "read" /\ result' = result /\ stdout' = stdout
       ELSE pc' = "done" /\ result' = Some(Ok) /\ stdout' = Append(stdout, Line("", <<>>))
    /\ UNCHANGED <<self, data_buffer, data>>
    /\ UNCHANGED catVars
    /\ UNCHANGED callVars

\* line 143: the first read
Read(ok, buf) ==
    /\ pc = "read"
    /\ trace' = Append(trace, EvRead(ok))
    /\ data_buffer' = IF ok THEN buf ELSE data_buffer
    /\ pc' = IF ok THEN "check" ELSE "read_retry"
    /\ UNCHANGED <<self, data, result, stdout>>
    /\ UNCHANGED catVars
    /\ UNCHANGED callVars

\* ReadRetry with the second failure ignored: the buffer is checked anyway
ReadRetryNoAbort(ok, buf) ==
    /\ pc = "read_retry"
    /\ trace' = trace \o <<EvSleep(300), EvRead(ok)>>
    /\ data_buffer' = IF ok THEN buf ELSE data_buffer
    /\ pc' = "check"
    /\ UNCHANGED <<self, data, result, stdout>>
    /\ UNCHANGED catVars
    /\ UNCHANGED callVars

\* lines 144-146: the backoff and the second read; its failure returns
ReadRetry(ok, buf) ==
    /\ pc = "read_retry"
    /\ trace' = trace \o <<EvSleep(300), EvRead(ok)>>
    /\ data_buffer' = IF ok THEN buf ELSE data_buffer
    /\ IF ok
       THEN pc' = "check" /\ result' = result
       ELSE pc' = "done" /\ result' = Some(Err("Error reading from device"))
    /\ UNCHANGED <<self, data, stdout>>
    /\ UNCHANGED catVars
    /\ UNCHANGED callVars

\* Payload without the high-bit mask
PayloadNoMask(b) ==
    LET eol == position(b)
    IN  IF eol # None
        THEN <<TRUE, [k \in 1..(eol[1] - 1) |-> b[k]]>>
        ELSE from_utf8(b, 1, MAX_RESPONSE_LENGTH)

\* Payload that masks the high bit in both branches and never fails
PayloadMaskedNoNul(b) ==
    LET eol == position(b)
    IN  IF eol # None
        THEN <<TRUE, [k \in 1..(eol[1] - 1) |-> b[k] % 128]>>
        ELSE <<TRUE, [k \in 1..(MAX_RESPONSE_LENGTH - 1) |-> b[k] % 128]>>

\* lines 153-164: the payload of a response whose status byte is 1
Payload(b) ==
    LET eol == position(b)
    IN  IF eol # None
        THEN <<TRUE, [k \in 1..(eol[1] - 1) |-> b[k] % 128]>>   \* (*c & !0x80) as char
        ELSE from_utf8(b, 1, MAX_RESPONSE_LENGTH)

\* lines 148-171: the status byte is matched and run returns
StatusCheck ==
    /\ pc = "check"
    /\ pc' = "done"
    /\ LET status == data_buffer[0]
           p      == Payload(data_buffer)
       IN  CASE status = 255 ->
                  /\ stdout' = stdout \o <<Line("No data expected.", <<>>), Line("", <<>>)>>
                  /\ result' = Some(Ok)
                  /\ data' = data
             [] status = 254 ->
                  /\ stdout' = stdout \o <<Line("Pending", <<>>), Line("", <<>>)>>
                  /\ result' = Some(Ok)
                  /\ data' = data
             [] status = 2 ->
                  /\ stdout' = stdout \o <<Line("Error", <<>>), Line("", <<>>)>>
                  /\ result' = Some(Ok)
                  /\ data' = data
             [] status = 1 /\ p[1] ->
                  /\ stdout' = stdout \o <<Line("RESPONSE", p[2]), Line("", <<>>)>>
                  /\ result' = Some(Ok)
                  /\ data' = p[2]
             [] status = 1 /\ ~p[1] ->
                  /\ stdout' = stdout
                  /\ result' = Some(Err("Data is not readable"))
                  /\ data' = data
             [] OTHER ->
                  /\ stdout' = stdout \o <<Line("NO RESPONSE", <<>>), Line("", <<>>)>>
                  /\ result' = Some(Ok)
                  /\ data' = data
    /\ UNCHANGED <<self, data_buffer, trace>>
    /\ UNCHANGED catVars
    /\ UNCHANGED callVars

Next ==
    \/ \E opts \in RunOptions : Call(opts)
    \/ \E ok \in BOOLEAN : Write(ok)
    \/ \E ok \in BOOLEAN : WriteRetry(ok)
    \/ Delay
    \/ \E ok \in BOOLEAN, buf \in ReadData(MAX_RESPONSE_LENGTH) : Read(ok, buf)
    \/ \E ok \in BOOLEAN, buf \in ReadData(MAX_RESPONSE_LENGTH) : ReadRetry(ok, buf)
    \/ StatusCheck

Spec == Init /\ [][Next]_vars

(***************************************************************************)
(* Reading the trace of one run                                            *)
(***************************************************************************)
Writes == {i \in 1..Len(trace) : trace[i].op = "write"}

Reads == {i \in 1..Len(trace) : trace[i].op = "read"}

\* the index of the write that succeeded, 0 when none has
WriteOk ==
    IF \E i \in Writes : trace[i].ok THEN CHOOSE i \in Writes : trace[i].ok ELSE 0

FirstWriteFailed == Len(trace) >= 1 /\ trace[1] = EvWrite(self.command, FALSE)

\* what the run did after its successful write
AfterWrite == SubSeq(trace, WriteOk + 1, Len(trace))

\* run has returned after a read that succeeded: data_buffer is the response
ResponseRead ==
    pc = "done" /\ Len(trace) >= 1 /\ trace[Len(trace)] = EvRead(TRUE)

HasNul == \E i \in DOMAIN data_buffer : data_buffer[i] = 0

\* C1: a failed first write is followed by the 300 ms backoff and exactly one
\* more write; when that write fails too, run has returned an error and has
\* done nothing else: no third write, no delay sleep, no read.
C1_WriteRetriedOnceThenAbort ==
    /\ Cardinality(Writes) <= 2
    /\ FirstWriteFailed /\ pc # "write_retry" =>
          /\ Len(trace) >= 3
          /\ trace[2] = EvSleep(300)
          /\ trace[3].op = "write"
          /\ trace[3].bytes = self.command
          /\ Writes = {1, 3}
          /\ ~trace[3].ok =>
                /\ pc = "done"
                /\ result # None /\ ~result[1].ok
                /\ Len(trace) = 3
    /\ ~FirstWriteFailed => Cardinality(Writes) <= 1

C1_Witness ==
    /\ pc = "done"
    /\ trace = <<EvWrite(self.command, FALSE), EvSleep(300), EvWrite(self.command, FALSE)>>
    /\ result = Some(Err("Command could not be sent"))

\* C2 (as claimed): after a response was read, status byte 255 makes run
\* return NoDataExpectedResponse, 254 PendingResponse, 2 DeviceErrorResponse,
\* any byte outside {1, 2, 254, 255} MalformedResponse, and run returns
\* success for a response-expecting command only when the status byte is 1.
C2_StatusByteErrors ==
    ResponseRead =>
       LET status == data_buffer[0]
       IN  /\ status = 255 => result = Some(Err("NoDataExpectedResponse"))
           /\ status = 254 => result = Some(Err("PendingResponse"))
           /\ status = 2 => result = Some(Err("DeviceErrorResponse"))
           /\ status \notin {1, 2, 254, 255} => result = Some(Err("MalformedResponse"))
           /\ result = Some(Ok) => status = 1

\* C3: a run whose first write failed and whose retried write succeeded goes
\* on as a run whose first write succeeded: after the successful write come
\* the declared delay, the reads (only if a response is expected) and the
\* status check, and the result is determined by the options, the reads and
\* the response alone.
C3_AfterWrite ==
    pc = "done" /\ WriteOk # 0 =>
       LET delayed == IF self.delay # None THEN <<EvSleep(self.delay[1])>> ELSE <<>>
           reads   == SubSeq(AfterWrite, Len(delayed) + 1, Len(AfterWrite))
       IN  /\ WriteOk \in {1, 3}
           /\ WriteOk = 3 => FirstWriteFailed /\ trace[2] = EvSleep(300)
           /\ SubSeq(AfterWrite, 1, Len(delayed)) = delayed
           /\ Len(AfterWrite) >= Len(delayed)
           /\ IF self.response = None
              THEN reads = <<>> /\ result = Some(Ok)
              ELSE \/ /\ reads \in {<<EvRead(TRUE)>>,
                                    <<EvRead(FALSE), EvSleep(300), EvRead(TRUE)>>}
                      /\ result = IF data_buffer[0] = 1 /\ ~HasNul
                                     /\ ~Utf8Valid(data_buffer, 1, MAX_RESPONSE_LENGTH)
                                  THEN Some(Err("Data is not readable"))
                                  ELSE Some(Ok)
                   \/ /\ reads = <<EvRead(FALSE), EvSleep(300), EvRead(FALSE)>>
                      /\ result = Some(Err("Error reading from device"))

C3_Witness ==
    /\ pc = "done"
    /\ FirstWriteFailed
    /\ WriteOk = 3
    /\ self.delay = Some(600)
    /\ trace[4] = EvSleep(600)
    /\ ResponseRead
    /\ data_buffer[0] = 1
    /\ result = Some(Ok)

\* C4: the steps of a run come in the order write, delay, read: no read
\* happens before a write has succeeded, and when the command declares a
\* delay the first thing after the successful write is the sleep of that
\* whole delay, so every read comes after it.
C4_WriteDelayRead ==
    /\ \A r \in Reads : WriteOk # 0 /\ WriteOk < r
    /\ pc \in {"read", "read_retry", "check"} => WriteOk # 0
    /\ self.delay # None =>
          /\ \A r \in Reads : WriteOk + 1 < r
          /\ Len(trace) > WriteOk /\ WriteOk # 0 => trace[WriteOk + 1] = EvSleep(self.delay[1])
          /\ pc \in {"read", "read_retry", "check"} => Len(trace) > WriteOk

C4_Witness ==
    /\ self.delay = Some(600)
    /\ trace = <<EvWrite(self.command, TRUE), EvSleep(600), EvRead(TRUE)>>

\* C5: run reads only when the command expects a response (without one it
\* returns success after the write and the delay, with no read); a failed
\* first read is followed by the 300 ms backoff and exactly one more read,
\* and when that read fails too run returns an error.
C5_ReadOnlyIfExpectedRetriedOnce ==
    /\ Reads # {} => self.response # None
    /\ Cardinality(Reads) <= 2
    /\ pc = "done" /\ self.response = None /\ WriteOk # 0 =>
          /\ result = Some(Ok)
          /\ Reads = {}
          /\ AfterWrite = IF self.delay # None THEN <<EvSleep(self.delay[1])>> ELSE <<>>
    /\ \A r \in Reads :
          /\ trace[r].ok => r = Len(trace)
          /\ ~trace[r].ok /\ pc # "read_retry" =>
                \/ /\ Len(trace) = r + 2
                   /\ trace[r + 1] = EvSleep(300)
                   /\ trace[r + 2].op = "read"
                   /\ ~trace[r + 2].ok =>
                         pc = "done" /\ result = Some(Err("Error reading from device"))
                \/ /\ Len(trace) = r
                   /\ r - 2 \in Reads
                   /\ ~trace[r - 2].ok

C5_Witness ==
    /\ pc = "done"
    /\ self.response # None
    /\ AfterWrite = <<EvSleep(300), EvRead(FALSE), EvSleep(300), EvRead(FALSE)>>
    /\ result = Some(Err("Error reading from device"))

\* C6: with status byte 1 and a nul in the buffer, the payload is the bytes
\* from index 1 up to the first nul, each with its high bit cleared, so every
\* character is below 128; a nul at index 1 gives the empty payload.
C6_PayloadUpToNul ==
    ResponseRead /\ data_buffer[0] = 1 /\ HasNul =>
       LET eol == CHOOSE i \in DOMAIN data_buffer :
                     data_buffer[i] = 0 /\ \A j \in 0..(i - 1) : data_buffer[j] # 0
       IN  /\ result = Some(Ok)
           /\ Len(data) = eol - 1
           /\ \A k \in 1..(eol - 1) :
                 /\ data[k] < 128
                 /\ data[k] = IF data_buffer[k] >= 128 THEN data_buffer[k] - 128
                              ELSE data_buffer[k]
           /\ eol = 1 => data = <<>>
           /\ stdout[Len(stdout) - 1] = Line("RESPONSE", data)

C6_Witness ==
    /\ ResponseRead
    /\ data_buffer[0] = 1
    /\ data_buffer[1] = 193
    /\ data_buffer[2] = 65
    /\ data_buffer[3] = 0
    /\ data = <<65, 65>>

\* C7 (as claimed): with status byte 1 and no nul in the buffer, the payload
\* is the whole rest of the buffer with the high bit stripped from each
\* byte, and run succeeds whatever the bytes are.
C7_NoNulStripped ==
    ResponseRead /\ data_buffer[0] = 1 /\ ~HasNul =>
       /\ result = Some(Ok)
       /\ data = [k \in 1..(MAX_RESPONSE_LENGTH - 1) |-> data_buffer[k] % 128]

\* C7 (amended): with status byte 1 and no nul in the buffer, the rest of
\* the buffer is decoded as UTF-8 and no high bit is stripped: bytes that are
\* all below 128 are the payload as they are, well-formed UTF-8 gives its
\* characters, and anything else makes run return an error, not a payload.
C7_NoNulFromUtf8 ==
    ResponseRead /\ data_buffer[0] = 1 /\ ~HasNul =>
       LET rest == 1..(MAX_RESPONSE_LENGTH - 1)
       IN  /\ (\A k \in rest : data_buffer[k] < 128) =>
                 /\ result = Some(Ok)
                 /\ data = [k \in rest |-> data_buffer[k]]
           /\ (data_buffer[1] \in 128..193) =>
                 /\ result = Some(Err("Data is not readable"))
                 /\ data = <<>>
           /\ result = Some(Ok) =>
                 /\ Utf8Valid(data_buffer, 1, MAX_RESPONSE_LENGTH)
                 /\ Len(data) = Cardinality({k \in rest : data_buffer[k] \notin 128..191})
                 /\ data_buffer[1] = 195 /\ data_buffer[2] = 169 => data[1] = 233
           /\ result # Some(Ok) =>
                 /\ ~Utf8Valid(data_buffer, 1, MAX_RESPONSE_LENGTH)
                 /\ result = Some(Err("Data is not readable"))

C7_Witness ==
    /\ ResponseRead
    /\ data_buffer[0] = 1
    /\ ~HasNul
    /\ data_buffer[1] = 65
    /\ data_buffer[2] = 128
    /\ result = Some(Err("Data is not readable"))

\* C8 (as claimed): when a command that declares a typed response (any
\* response but Ack) has been run, the read status byte is 1 and the payload
\* was extracted, run has handed the payload to the decoder of the response
\* kind (Reading to ProbeReading::parse, CalibrationState to
\* CalibrationStatus::parse, OutputState to OutputStringStatus::parse, Status
\* to DeviceStatus::parse, ...) and has returned exactly the decoder's
\* result: its typed value, or the error ResponseParse.
C8_DecoderResultReturned ==
    (/\ ResponseRead
     /\ data_buffer[0] = 1
     /\ Payload(data_buffer)[1]
     /\ self.response \notin {None, Some("Ack")}) =>
        LET kind == self.response[1]
            decoded ==
                CASE kind = "Reading" -> ProbeReading_parse(data)
                  [] kind = "CalibrationState" -> CalibrationStatus_parse(data)
                  [] kind = "OutputState" -> OutputStringStatus_parse(data)
                  [] kind = "Status" -> DeviceStatus_parse(data)
                  [] kind = "DeviceInformation" -> DeviceInfo_parse(data)
                  [] kind = "LedState" -> LedStatus_parse(data)
                  [] kind = "ProbeTypeState" -> ProbeType_parse(data)
                  [] kind = "ProtocolLockState" -> ProtocolLockStatus_parse(data)
                  [] kind = "Export" -> Exported_parse(data)
                  [] kind = "ExportInfo" -> ExportedInfo_parse(data)
                  [] kind = "CompensationValue" -> CompensationValue_parse(data)
            \* what the caller of run holds: () inside the Ok of a Result<()>
            returned == IF result[1].ok THEN <<"()", "", <<>>>> ELSE <<>>
        IN  /\ result[1].ok = decoded.ok
            /\ decoded.ok => returned = decoded.val
            /\ ~decoded.ok => result[1].err = "ResponseParse"

\* C9 (as claimed): the buffer run hands to the transport read holds 401
\* bytes, the status byte and 400 payload bytes.
C9_BufferIs401 ==
    pc \in {"read", "read_retry", "check"} \/ Reads # {} =>
       Cardinality(DOMAIN data_buffer) = 1 + 400

(***************************************************************************)
(* command.rs: making a command and asking for its wire string and delay   *)
(***************************************************************************)
\* the f64 parameters that are tried: 0, 0.25, -0.5, 19.5, 84, 1413, 12800
F64Values == {0, 250, -500, 19500, 84000, 1413000, 12800000}

\* the u16 addresses that are tried
AddressValues == {0, 88, 100, 65535}

\* the calibration strings that are tried: "1", "abc", "ABCDEFGHIJKLMNO"
ImportValues == {<<49>>, <<97,98,99>>, <<65,66,67,68,69,70,71,72,73,74,75,76,77,78,79>>}

UnitCommands ==
    {"CalibrationDry", "CalibrationClear", "CalibrationState", "Export", "ExportInfo",
     "Factory", "Find", "DeviceInformation", "LedOn", "LedOff", "LedState",
     "ProbeTypePointOne", "ProbeTypeOne", "ProbeTypeTen", "ProbeTypeState",
     "ProtocolLockEnable", "ProtocolLockDisable", "ProtocolLockState", "Reading",
     "OutputDisableConductivity", "OutputEnableConductivity", "OutputDisableTds",
     "OutputEnableTds", "OutputDisableSalinity", "OutputEnableSalinity",
     "OutputDisableSpecificGravity", "OutputEnableSpecificGravity", "OutputState",
     "Status", "Sleep", "CompensatedTemperatureValue"}

F64Commands ==
    {"CalibrationOnePoint", "CalibrationLow", "CalibrationHigh", "TemperatureCompensation"}

Commands ==
    {Cmd(t) : t \in UnitCommands}
    \cup {Cmd1("Baud", r) : r \in BpsRate}
    \cup {Cmd1(t, m) : t \in F64Commands, m \in F64Values}
    \cup {Cmd1("DeviceAddress", a) : a \in AddressValues}
    \cup {CmdS("Import", x) : x \in ImportValues}

CatalogInit ==
    /\ RunIdle
    /\ CallIdle
    /\ cmd \in Commands
    /\ cmd_string = None
    /\ cmd_delay = None
    /\ cmd_options = None

\* another command value is made
Construct(c) ==
    /\ cmd' = c
    /\ cmd_string' = None
    /\ cmd_delay' = None
    /\ cmd_options' = None
    /\ UNCHANGED runVars
    /\ UNCHANGED callVars

GetCommandString ==
    /\ cmd_string' = Some(get_command_string(cmd))
    /\ UNCHANGED <<cmd, cmd_delay, cmd_options>>
    /\ UNCHANGED runVars
    /\ UNCHANGED callVars

GetDelay ==
    /\ cmd_delay' = Some(get_delay(cmd))
    /\ UNCHANGED <<cmd, cmd_string, cmd_options>>
    /\ UNCHANGED runVars
    /\ UNCHANGED callVars

\* The variant of ConductivityCommand (lib.rs) that is the same command as a
\* command type of command.rs: the name is the same but for two of them;
\* DeviceAddress holds a u8 there, so larger addresses have no variant.
ConductivityCommand(c) ==
    CASE c.tag = "CalibrationOnePoint" -> Some(Cmd1("CalibrationSinglePoint", c.arg[1]))
      [] c.tag = "CompensatedTemperatureValue" -> Some(Cmd("TemperatureCompensationValue"))
      [] c.tag = "DeviceAddress" -> IF c.arg[1] <= 255 THEN Some(c) ELSE None
      [] OTHER -> Some(c)

\* lib.rs: build() of the variant that is the same command
Build ==
    /\ ConductivityCommand(cmd) # None
    /\ cmd_options' = Some(build(ConductivityCommand(cmd)[1]))
    /\ UNCHANGED <<cmd, cmd_string, cmd_delay>>
    /\ UNCHANGED runVars
    /\ UNCHANGED callVars

CatalogNext ==
    \/ \E c \in Commands : Construct(c)
    \/ GetCommandString
    \/ GetDelay
    \/ Build

SpecCatalog == CatalogInit /\ [][CatalogNext]_vars

(***************************************************************************)
(* What the tests of command.rs assert: command, wire string, delay        *)
(***************************************************************************)
CommandTests ==
    {
     <<Cmd1("Baud", 300), <<66,65,85,68,44,51,48,48>>, 0>>,    \* "BAUD,300"
     <<Cmd1("Baud", 1200), <<66,65,85,68,44,49,50,48,48>>, 0>>,    \* "BAUD,1200"
     <<Cmd1("Baud", 2400), <<66,65,85,68,44,50,52,48,48>>, 0>>,    \* "BAUD,2400"
     <<Cmd1("Baud", 9600), <<66,65,85,68,44,57,54,48,48>>, 0>>,    \* "BAUD,9600"
     <<Cmd1("Baud", 19200), <<66,65,85,68,44,49,57,50,48,48>>, 0>>,    \* "BAUD,19200"
     <<Cmd1("Baud", 38400), <<66,65,85,68,44,51,56,52,48,48>>, 0>>,    \* "BAUD,38400"
     <<Cmd1("Baud", 57600), <<66,65,85,68,44,53,55,54,48,48>>, 0>>,    \* "BAUD,57600"
     <<Cmd1("Baud", 115200), <<66,65,85,68,44,49,49,53,50,48,48>>, 0>>,    \* "BAUD,115200"
     <<Cmd("CalibrationDry"), <<67,65,76,44,68,82,89>>, 800>>,    \* "CAL,DRY"
     <<Cmd1("CalibrationOnePoint", 84000), <<67,65,76,44,56,52,46,48,48>>, 800>>,    \* "CAL,84.00"
     <<Cmd1("CalibrationHigh", 12800000), <<67,65,76,44,72,73,71,72,44,49,50,56,48,48,46,48,48>>, 800>>,    \* "CAL,HIGH,12800.00"
     <<Cmd1("CalibrationLow", 1413000), <<67,65,76,44,76,79,87,44,49,52,49,51,46,48,48>>, 800>>,    \* "CAL,LOW,1413.00"
     <<Cmd("CalibrationClear"), <<67,65,76,44,67,76,69,65,82>>, 300>>,    \* "CAL,CLEAR"
     <<Cmd("CalibrationState"), <<67,65,76,44,63>>, 300>>,    \* "CAL,?"
     <<Cmd("Export"), <<69,88,80,79,82,84>>, 300>>,    \* "EXPORT"
     <<Cmd("ExportInfo"), <<69,88,80,79,82,84,44,63>>, 300>>,    \* "EXPORT,?"
     <<CmdS("Import", <<65,66,67,68,69,70,71,72,73,74,75,76,77,78,79>>), <<73,77,80,79,82,84,44,65,66,67,68,69,70,71,72,73,74,75,76,77,78,79>>, 300>>,    \* "IMPORT,ABCDEFGHIJKLMNO"
     <<Cmd("Factory"), <<70,65,67,84,79,82,89>>, 0>>,    \* "FACTORY"
     <<Cmd("Find"), <<70>>, 300>>,    \* "F"
     <<Cmd("DeviceInformation"), <<73>>, 300>>,    \* "I"
     <<Cmd1("DeviceAddress", 88), <<73,50,67,44,56,56>>, 300>>,    \* "I2C,88"
     <<Cmd("ProbeTypePointOne"), <<75,44,48,46,49>>, 600>>,    \* "K,0.1"
     <<Cmd("ProbeTypeOne"), <<75,44,49,46,48>>, 600>>,    \* "K,1.0"
     <<Cmd("ProbeTypeTen"), <<75,44,49,48,46,48>>, 600>>,    \* "K,10.0"
     <<Cmd("ProbeTypeState"), <<75,44,63>>, 300>>,    \* "K,?"
     <<Cmd("LedOn"), <<76,44,49>>, 300>>,    \* "L,1"
     <<Cmd("LedOff"), <<76,44,48>>, 300>>,    \* "L,0"
     <<Cmd("LedState"), <<76,44,63>>, 300>>,    \* "L,?"
     <<Cmd("OutputDisableConductivity"), <<79,44,69,67,44,48>>, 300>>,    \* "O,EC,0"
     <<Cmd("OutputEnableConductivity"), <<79,44,69,67,44,49>>, 300>>,    \* "O,EC,1"
     <<Cmd("OutputDisableTds"), <<79,44,84,68,83,44,48>>, 300>>,    \* "O,TDS,0"
     <<Cmd("OutputEnableTds"), <<79,44,84,68,83,44,49>>, 300>>,    \* "O,TDS,1"
     <<Cmd("OutputDisableSalinity"), <<79,44,83,44,48>>, 300>>,    \* "O,S,0"
     <<Cmd("OutputEnableSalinity"), <<79,44,83,44,49>>, 300>>,    \* "O,S,1"
     <<Cmd("OutputDisableSpecificGravity"), <<79,44,83,71,44,48>>, 300>>,    \* "O,SG,0"
     <<Cmd("OutputEnableSpecificGravity"), <<79,44,83,71,44,49>>, 300>>,    \* "O,SG,1"
     <<Cmd("OutputState"), <<79,44,63>>, 300>>,    \* "O,?"
     <<Cmd("ProtocolLockEnable"), <<80,76,79,67,75,44,49>>, 300>>,    \* "PLOCK,1"
     <<Cmd("ProtocolLockDisable"), <<80,76,79,67,75,44,48>>, 300>>,    \* "PLOCK,0"
     <<Cmd("ProtocolLockState"), <<80,76,79,67,75,44,63>>, 300>>,    \* "PLOCK,?"
     <<Cmd("Reading"), <<82>>, 600>>,    \* "R"
     <<Cmd("Sleep"), <<83,76,69,69,80>>, 0>>,    \* "SLEEP"
     <<Cmd("Status"), <<83,84,65,84,85,83>>, 300>>,    \* "STATUS"
     <<Cmd1("TemperatureCompensation", 19500), <<84,44,49,57,46,53,48,48>>, 300>>,    \* "T,19.500"
     <<Cmd("CompensatedTemperatureValue"), <<84,44,63>>, 300>>    \* "T,?"
    }

\* str is prefix followed by the decimal number m/1000 with exactly prec
\* decimals: an optional '-', digits, '.', prec digits
IsFixedNumber(str, prefix, m, prec) ==
    LET n    == Len(str)
        from == Len(prefix) + (IF m < 0 THEN 2 ELSE 1)
        dot  == n - prec
        a    == IF m < 0 THEN 0 - m ELSE m
        int  == SubSeq(str, from, dot - 1)
        frac == SubSeq(str, dot + 1, n)
        unit == IF prec = 2 THEN 10 ELSE 1
    IN  /\ SubSeq(str, 1, Len(prefix)) = prefix
        /\ m < 0 => str[Len(prefix) + 1] = 45
        /\ dot > from
        /\ str[dot] = 46
        /\ IsDigits(int) /\ IsDigits(frac)
        /\ DecimalValue(int) * 1000 + DecimalValue(frac) * unit = a

\* C10: every command type gives its canonical wire string, the upper-case
\* ASCII keyword of the tests with the parameter rendered in its place and
\* no nul terminator ("CAL,DRY", "R", "F", "BAUD,<r>", "I2C,<n>", ...), and
\* its declared delay: 0 for Baud, Factory and Sleep, 800 for the four
\* calibrations, 600 for Reading and the three probe types, 300 otherwise;
\* the answers are those of the tests, and asking involves no transport call.
C10_WireStringAndDelay ==
    /\ trace = <<>> /\ pc = "idle"
    /\ cmd_string # None =>
          LET str == cmd_string[1]
              key == CASE cmd.tag = "Baud" -> <<66,65,85,68,44>>
                       [] cmd.tag = "CalibrationOnePoint" -> <<67,65,76,44>>
                       [] cmd.tag = "CalibrationLow" -> <<67,65,76,44,76,79,87,44>>
                       [] cmd.tag = "CalibrationHigh" -> <<67,65,76,44,72,73,71,72,44>>
                       [] cmd.tag = "TemperatureCompensation" -> <<84,44>>
                       [] cmd.tag = "DeviceAddress" -> <<73,50,67,44>>
                       [] cmd.tag = "Import" -> <<73,77,80,79,82,84,44>>
                       [] OTHER -> str
              par == SubSeq(str, Len(key) + 1, Len(str))
          IN  /\ str # <<>>
              /\ \A i \in 1..Len(str) : str[i] # 0 /\ str[i] < 128
              /\ SubSeq(str, 1, Len(key)) = key
              /\ \A i \in 1..Len(key) : key[i] \notin 97..122
              /\ \A row \in CommandTests : row[1] = cmd => str = row[2]
              /\ cmd.tag \in UnitCommands =>
                    \E row \in CommandTests : row[1] = cmd /\ row[2] = str
              /\ cmd.tag \in {"Baud", "DeviceAddress"} =>
                    IsDigits(par) /\ DecimalValue(par) = cmd.arg[1]
              /\ cmd.tag \in {"CalibrationOnePoint", "CalibrationLow", "CalibrationHigh"} =>
                    IsFixedNumber(str, key, cmd.arg[1], 2)
              /\ cmd.tag = "TemperatureCompensation" =>
                    IsFixedNumber(str, key, cmd.arg[1], 3)
              /\ cmd.tag = "Import" => par = cmd.arg
    /\ cmd_delay # None =>
          /\ cmd_delay[1] =
                CASE cmd.tag \in {"Baud", "Factory", "Sleep"} -> 0
                  [] cmd.tag \in {"CalibrationDry", "CalibrationOnePoint",
                                  "CalibrationLow", "CalibrationHigh"} -> 800
                  [] cmd.tag \in {"Reading", "ProbeTypePointOne", "ProbeTypeOne",
                                  "ProbeTypeTen"} -> 600
                  [] OTHER -> 300
          /\ \A row \in CommandTests : row[1] = cmd => cmd_delay[1] = row[3]

C10_Witness ==
    /\ cmd = Cmd("ProbeTypePointOne")
    /\ cmd_string = Some(<<75,44,48,46,49>>)
    /\ cmd_delay = Some(600)

\* C11 (as claimed): a command that both lib.rs (ConductivityCommand::build)
\* and command.rs define has one wire string, one delay and one
\* expects-response flag: build's command string is the string of
\* get_command_string (a final nul aside), build's delay is the delay of
\* get_delay (no delay counting as 0), build sets a response exactly when
\* the command type declares one, and either both strings end with a nul
\* or neither does.
C11_SameDefinitionInBoth ==
    (/\ cmd_options # None
     /\ cmd_options[1][1] = "Ok"
     /\ cmd_string # None
     /\ cmd_delay # None) =>
        LET o      == cmd_options[1][2]
            nul(x) == x # <<>> /\ x[Len(x)] = 0
            text   == IF nul(o.command) THEN SubSeq(o.command, 1, Len(o.command) - 1)
                      ELSE o.command
        IN  /\ text = cmd_string[1]
            /\ (IF o.delay = None THEN 0 ELSE o.delay[1]) = cmd_delay[1]
            /\ (o.response # None) = (ResponseType(cmd) # "()")
            /\ nul(o.command) = nul(cmd_string[1])

(***************************************************************************)
(* command.rs: FromStr for the command types.  The result is Ok(command),   *)
(* Err(CommandParse) or a panic of the calling thread.  A parsed f64        *)
(* parameter is the f64 value that f64::from_str gives.                     *)
(***************************************************************************)
to_uppercase_identity(s) == s

\* s.to_uppercase(), of ASCII text
to_uppercase(s) == [i \in 1..Len(s) |-> IF s[i] \in 97..122 THEN s[i] - 32 ELSE s[i]]

\* bail!(ErrorKind::CommandParse)
CommandParse == ErrorKind("CommandParse")

\* .unwrap() of an Err: the call does not return, the thread panics
Panicked == [ok |-> FALSE, err |-> "panicked", val |-> <<>>]

\* the string a parameterless command type matches: "<literal>" => Ok(Type)
FromStrLiteral(ty) ==
    CASE ty = "CalibrationDry" -> <<67,65,76,44,68,82,89>>
      [] ty = "CalibrationClear" -> <<67,65,76,44,67,76,69,65,82>>
      [] ty = "CalibrationState" -> <<67,65,76,44,63>>
      [] ty = "Export" -> <<69,88,80,79,82,84>>
      [] ty = "ExportInfo" -> <<69,88,80,79,82,84,44,63>>
      [] ty = "Factory" -> <<70,65,67,84,79,82,89>>
      [] ty = "Find" -> <<70>>
      [] ty = "DeviceInformation" -> <<73>>
      [] ty = "LedOn" -> <<76,44,49>>
      [] ty = "LedOff" -> <<76,44,48>>
      [] ty = "LedState" -> <<76,44,63>>
      [] ty = "ProbeTypePointOne" -> <<75,44,48,46,49>>
      [] ty = "ProbeTypeOne" -> <<75,44,49,46,48>>
      [] ty = "ProbeTypeTen" -> <<75,44,49,48,46,48>>
      [] ty = "ProbeTypeState" -> <<75,44,63>>
      [] ty = "ProtocolLockEnable" -> <<80,76,79,67,75,44,49>>
      [] ty = "ProtocolLockDisable" -> <<80,76,79,67,75,44,48>>
      [] ty = "ProtocolLockState" -> <<80,76,79,67,75,44,63>>
      [] ty = "Reading" -> <<82>>
      [] ty = "OutputDisableConductivity" -> <<79,44,69,67,44,48>>
      [] ty = "OutputEnableConductivity" -> <<79,44,69,67,44,49>>
      [] ty = "OutputDisableTds" -> <<79,44,84,68,83,44,48>>
      [] ty = "OutputEnableTds" -> <<79,44,84,68,83,44,49>>
      [] ty = "OutputDisableSalinity" -> <<79,44,83,44,48>>
      [] ty = "OutputEnableSalinity" -> <<79,44,83,44,49>>
      [] ty = "OutputDisableSpecificGravity" -> <<79,44,83,71,44,48>>
      [] ty = "OutputEnableSpecificGravity" -> <<79,44,83,71,44,49>>
      [] ty = "OutputState" -> <<79,44,63>>
      [] ty = "Status" -> <<83,84,65,84,85,83>>
      [] ty = "Sleep" -> <<83,76,69,69,80>>
      [] ty = "CompensatedTemperatureValue" -> <<84,44,63>>

\* from_str of a parameterless command type
Unit_from_str(ty, s) ==
    LET supper == to_uppercase(s)
    IN  IF supper = FromStrLiteral(ty) THEN ParseOk(Cmd(ty)) ELSE CommandParse

\* Baud::from_str
Baud_from_str(s) ==
    LET supper == to_uppercase(s)
        rest   == get_from(supper, 5)
        tokens == split(rest, 44)
        first  == next(tokens, 1)
    IN  IF starts_with(supper, <<66,65,85,68,44>>)
        THEN IF first # None /\ first[1] \in {Dec(r) : r \in BpsRate}
             THEN IF next(tokens, 2) = None
                  THEN ParseOk(Cmd1("Baud", CHOOSE r \in BpsRate : Dec(r) = first[1]))
                  ELSE CommandParse
             ELSE CommandParse
        ELSE CommandParse

\* the prefix the from_str of a command type with an f64 parameter asks for
F64Prefix(ty) ==
    CASE ty = "CalibrationOnePoint" -> <<67,65,76,44>>
      [] ty = "CalibrationLow" -> <<67,65,76,44,76,79,87,44>>
      [] ty = "CalibrationHigh" -> <<67,65,76,44,72,73,71,72,44>>
      [] ty = "TemperatureCompensation" -> <<84,44>>

\* CalibrationOnePoint::from_str, CalibrationLow::from_str,
\* CalibrationHigh::from_str, TemperatureCompensation::from_str: the same
\* code but for the prefix
F64_from_str(ty, s) ==
    LET supper == to_uppercase(s)
        rest   == get_from(supper, Len(F64Prefix(ty)))
        tokens == split(rest, 44)
        first  == next(tokens, 1)
        value  == F64FromStr(first[1])    \* n.parse::<f64>()
    IN  IF starts_with(supper, F64Prefix(ty))
        THEN IF first # None
             THEN IF value = None THEN Panicked    \* .unwrap()
                  ELSE IF next(tokens, 2) = None THEN ParseOk(Cmd1(ty, value[1]))
                  ELSE CommandParse
             ELSE CommandParse
        ELSE CommandParse

\* DeviceAddress::from_str
DeviceAddress_from_str(s) ==
    LET supper == to_uppercase(s)
        rest   == get_from(supper, 4)
        tokens == split(rest, 44)
        first  == next(tokens, 1)
        value  == U16FromStr(first[1])    \* n.parse::<u16>()
    IN  IF starts_with(supper, <<73,50,67,44>>)
        THEN IF first # None
             THEN IF value = None THEN Panicked    \* .unwrap()
                  ELSE IF next(tokens, 2) = None THEN ParseOk(Cmd1("DeviceAddress", value[1]))
                  ELSE CommandParse
             ELSE CommandParse
        ELSE CommandParse

Import_from_str_up_to_13(s) ==
    LET supper == to_uppercase(s)
        rest   == get_from(supper, 7)
        tokens == split(rest, 44)
        first  == next(tokens, 1)
    IN  IF starts_with(supper, <<73,77,80,79,82,84,44>>)
        THEN IF first # None /\ Len(first[1]) > 0 /\ Len(first[1]) <= 13
             THEN IF next(tokens, 2) = None
                  THEN ParseOk(CmdS("Import", first[1]))
                  ELSE CommandParse
             ELSE CommandParse
        ELSE CommandParse

\* Import::from_str
Import_from_str(s) ==
    LET supper == to_uppercase(s)
        rest   == get_from(supper, 7)
        tokens == split(rest, 44)
        first  == next(tokens, 1)
    IN  IF starts_with(supper, <<73,77,80,79,82,84,44>>)
        THEN IF first # None /\ Len(first[1]) > 0 /\ Len(first[1]) < 13
             THEN IF next(tokens, 2) = None
                  THEN ParseOk(CmdS("Import", first[1]))
                  ELSE CommandParse
             ELSE CommandParse
        ELSE CommandParse

\* <Type as FromStr>::from_str(s)
from_str(ty, s) ==
    CASE ty = "Baud" -> Baud_from_str(s)
      [] ty \in F64Commands -> F64_from_str(ty, s)
      [] ty = "DeviceAddress" -> DeviceAddress_from_str(s)
      [] ty = "Import" -> Import_from_str(s)
      [] OTHER -> Unit_from_str(ty, s)

(***************************************************************************)
(* Calls of from_str: any command type is asked to parse any of the texts. *)
(***************************************************************************)
CommandTypes == UnitCommands \cup F64Commands \cup {"Baud", "DeviceAddress", "Import"}

\* a text with its letters in upper and lower case by turns
MixedCase(s) ==
    [i \in 1..Len(s) |-> IF i % 2 = 1 THEN to_uppercase(<<s[i]>>)[1]
                         ELSE to_ascii_lowercase(<<s[i]>>)[1]]

\* the spellings of a text that differ in letter case only
CaseVariants(s) ==
    {s, to_ascii_lowercase(s), MixedCase(s), Tail(MixedCase(<<32>> \o s))}

\* the texts of the parse tests, and texts that are no wire form
FromStrTexts ==
    {<<105,50,99,44,49>>, <<73,50,67,44,49,50,51>>, <<99,97,108,44,48>>, <<67,97,108,44,49,49,46,52,51>>, <<67,97,108,44,72,73,71,72,44,52,49,50,49,46,52,51>>,
     <<67,97,108,44,108,111,87,44,45,49,50,49,46,52,51>>, <<73,77,80,79,82,84,44,97,98,99,100,101,102>>, <<116,44,49,57,46,53>>, <<84,44,49,101,50>>,
     <<>>, <<88>>, <<66,65,85,68,44>>, <<66,65,85,68,44,48>>, <<66,65,85,68,44,51,48,48,44>>, <<66,65,85,68,44,51,48,48,44,49,50,48,48>>, <<98,97,117,100,44,51,48,49>>,
     <<67,65,76,44>>, <<67,65,76,44,49,44,50>>, <<67,65,76,44,120,44,50>>, <<67,65,76,44,76,79,87,44>>, <<67,65,76,44,72,73,71,72,44,49,44>>, <<84,44>>, <<84,44,49,44>>,
     <<73,50,67,44>>, <<73,50,67,44,120>>, <<73,50,67,44,55,48,48,48,48>>, <<73,50,67,44,54,53,53,51,54>>, <<73,50,67,44,45,49>>, <<73,50,67,44,49,44,50>>, <<73,50,67,44,120,44,50>>,
     <<73,50,67,44,49,46,48>>, <<73,77,80,79,82,84,44>>, <<73,77,80,79,82,84,44,97,44,98>>, <<73,77,80,79,82,84,44,44>>, <<105,109,112,111,114,116,44,49,50,51,52,53,54,55,56,57,48,49,50>>,
     <<105,109,112,111,114,116,44,49,50,51,52,53,54,55,56,57,48,97,98,99>>, <<73,77,80,79,82,84>>, <<67,65,76,44,68,82,89,44>>, <<82,44>>, <<32,82>>, <<83,84,65,84,85,83,0>>}

FromStrInputs ==
    UNION {CaseVariants(get_command_string(c)) : c \in Commands} \cup FromStrTexts

\* a call that has its arguments and has not returned
Calling(fn, ty, arg) == Some([fn |-> fn, ty |-> ty, arg |-> arg])

\* a text is about to be parsed as a command type
FromStrInit ==
    /\ RunIdle
    /\ CatalogIdle
    /\ call \in {Calling("from_str", ty, s) : ty \in CommandTypes, s \in FromStrInputs}
    /\ ret = None

\* s.parse::<Type>()
FromStr ==
    /\ call # None /\ call[1].fn = "from_str"
    /\ ret = None
    /\ ret' = Some(from_str(call[1].ty, call[1].arg))
    /\ UNCHANGED call
    /\ UNCHANGED runVars
    /\ UNCHANGED catVars

FromStrNext == FromStr

SpecFromStr == FromStrInit /\ [][FromStrNext]_vars

\* from_str of the type of command c has returned
FromStrOf(c) ==
    call # None /\ call[1].fn = "from_str" /\ call[1].ty = c.tag /\ ret # None

\* the command c as a from_str returns it: its f64 parameter, held in
\* thousandths, is the f64 value
AsParsed(c) == IF c.tag \in F64Commands THEN Cmd1(c.tag, F64(c.arg[1], 0 - 3)) ELSE c

\* an Import string in upper case
ImportUpperValues == {to_uppercase(x) : x \in ImportValues}

\* the commands whose wire string names them again: no Import string with a
\* lower-case letter, a comma, or a length out of 1..12
Reparsable ==
    {c \in Commands \cup {CmdS("Import", x) : x \in ImportUpperValues} :
        c.tag = "Import" =>
            /\ Len(c.arg) \in 1..12
            /\ \A i \in 1..Len(c.arg) : c.arg[i] \notin (97..122) \cup {44}}

NoWireForm ==
    {<<"CalibrationOnePoint", <<67,65,76,44,68,82,89>>>>, <<"TemperatureCompensation", <<84,44,63>>>>,
     <<"DeviceAddress", <<73,50,67,44,55,48,48,48,48>>>>, <<"DeviceAddress", <<73,50,67,44,120>>>>,
     <<"Baud", <<66,65,85,68,44,51,48,48,44>>>>}

\* C13 (as claimed): from_str never panics, and for a text that is no wire
\* form of the command type (a parameter that is no number or out of range,
\* a trailing field) it returns the error CommandParse.
C13_InvalidIsCommandParse ==
    (call # None /\ call[1].fn = "from_str" /\ ret # None) =>
        /\ ret[1] # Panicked
        /\ <<call[1].ty, call[1].arg>> \in NoWireForm => ret[1] = CommandParse

\* the commands that C14 encodes and parses again: no parameter, a rate, or
\* a u16 address
RoundTripCommands == {c \in Commands : c.tag \in UnitCommands \cup {"Baud", "DeviceAddress"}}

\* C14: from_str of the string that get_command_string gives for a command
\* without parameter, a Baud or a DeviceAddress returns a command equal to
\* it, so one with the same wire string, delay and response kind.
C14_EncodeThenParse ==
    \A c \in RoundTripCommands :
        (FromStrOf(c) /\ call[1].arg = get_command_string(c)) =>
            /\ ret[1] = ParseOk(c)
            /\ get_command_string(ret[1].val) = call[1].arg
            /\ get_delay(ret[1].val) = get_delay(c)
            /\ ResponseType(ret[1].val) = ResponseType(c)

\* the largest address, a rate and a command without parameter came back
C14_Witness ==
    /\ \E c \in RoundTripCommands : FromStrOf(c) /\ call[1].arg = get_command_string(c)
    /\ ret[1].ok
    /\ ret[1].val \in {Cmd1("DeviceAddress", 65535), Cmd1("Baud", 115200), Cmd("Sleep")}

\* C15 (as claimed): an Import whose wire string or delay was asked for
\* carries a calibration string of 1 to 12 characters.
C15_ImportLength ==
    (cmd # None /\ cmd.tag = "Import" /\ (cmd_string # None \/ cmd_delay # None)) =>
        Len(cmd.arg) \in 1..12

\* C16: Import::from_str of "IMPORT,<p>", the keyword in any letter case,
\* returns Import(p in upper case) when p has no comma and 1 to 12
\* characters, and the error CommandParse otherwise.
C16_ImportFromStr ==
    (/\ call # None /\ call[1].fn = "from_str" /\ call[1].ty = "Import" /\ ret # None
     /\ Len(call[1].arg) >= 7
     /\ SubSeq(call[1].arg, 1, 7) \in CaseVariants(<<73,77,80,79,82,84,44>>)) =>
        LET p == SubSeq(call[1].arg, 8, Len(call[1].arg))
        IN  IF Len(p) \in 1..12 /\ \A i \in 1..Len(p) : p[i] # 44
            THEN /\ ret[1] = ParseOk(CmdS("Import", to_uppercase(p)))
                 /\ \A i \in 1..Len(p) : ret[1].val.arg[i] \notin 97..122
            ELSE ret[1] = CommandParse

\* "IMPORT,abcdef" gave Import("ABCDEF")
C16_Witness ==
    /\ call # None /\ call[1].fn = "from_str" /\ call[1].ty = "Import" /\ ret # None
    /\ call[1].arg = <<73,77,80,79,82,84,44,97,98,99,100,101,102>>
    /\ ret[1] = ParseOk(CmdS("Import", <<65,66,67,68,69,70>>))

(***************************************************************************)
(* response.rs: OutputStringStatus::to_string, and calls of the decoders.  *)
(* call holds the calls made, in order, and ret the results of those that  *)
(* have returned.                                                          *)
(***************************************************************************)
\* _out.join(sep)
RECURSIVE join(_, _)
join(list, sep) ==
    IF list = <<>> THEN <<>>
    ELSE IF Len(list) = 1 THEN list[1]
    ELSE list[1] \o sep \o join(Tail(list), sep)

OutputStringStatus_to_string_sg_first(v) ==
    LET push(out, status, token) == IF status = "On" THEN Append(out, token) ELSE out
        _out == push(push(push(push(<<>>, v[3][4], <<83,71>>), v[3][1], <<69,67>>),
                          v[3][2], <<84,68,83>>), v[3][3], <<83>>)
    IN  IF Len(_out) \in 1..4 THEN join(_out, <<44>>) ELSE <<78,111,32,111,117,116,112,117,116>>

\* OutputStringStatus::to_string
OutputStringStatus_to_string(v) ==
    LET push(out, status, token) == IF status = "On" THEN Append(out, token) ELSE out
        _out == push(push(push(push(<<>>, v[3][1], <<69,67>>), v[3][2], <<84,68,83>>),
                          v[3][3], <<83>>), v[3][4], <<83,71>>)
    IN  IF Len(_out) \in 1..4 THEN join(_out, <<44>>) ELSE <<78,111,32,111,117,116,112,117,116>>

\* <Type>::parse(response)
parse(ty, response) ==
    CASE ty = "OutputStringStatus" -> OutputStringStatus_parse(response)
      [] ty = "ProbeReading" -> ProbeReading_parse(response)
      [] ty = "CalibrationStatus" -> CalibrationStatus_parse(response)
      [] ty = "CompensationValue" -> CompensationValue_parse(response)
      [] ty = "DeviceInfo" -> DeviceInfo_parse(response)
      [] ty = "DeviceStatus" -> DeviceStatus_parse(response)
      [] ty = "Exported" -> Exported_parse(response)
      [] ty = "ExportedInfo" -> ExportedInfo_parse(response)
      [] ty = "ProtocolLockStatus" -> ProtocolLockStatus_parse(response)
      [] ty = "LedStatus" -> LedStatus_parse(response)
      [] ty = "ProbeType" -> ProbeType_parse(response)

\* the longest list of tokens after "?O," that is tried
MaxTokens == 5

\* the longest list of fields of a reading that is tried
MaxFields == 5

\* what stands between the commas of a "?O," payload
OutputTokens == {<<69,67>>, <<84,68,83>>, <<83>>, <<83,71>>, <<78,111,32,111,117,116,112,117,116>>, <<>>}

\* what stands between the commas of a reading
ReadingFields == {<<48>>, <<49,50,46,53>>, <<45,49>>, <<>>, <<120>>}

\* the 16 values of OutputStringStatus
OutputStringStatusValues ==
    {<<"OutputStringStatus", "", <<ec, tds, s, sg>>>> :
        ec \in {"On", "Off"}, tds \in {"On", "Off"}, s \in {"On", "Off"}, sg \in {"On", "Off"}}

\* payloads of the tests of response.rs that the token lists do not give
DecodeTexts ==
    {<<"OutputStringStatus", <<>>>>, <<"OutputStringStatus", <<63,79>>>>,
     <<"OutputStringStatus", <<79,44,69,67>>>>, <<"OutputStringStatus", <<63,79,44,69,67,66>>>>,
     <<"OutputStringStatus", <<63,79,44,97,44,98,44,99,44,100>>>>, <<"OutputStringStatus", <<63,111,44,69,67>>>>,
     <<"ProbeReading", <<49,50,46,53,48,48,44,48,46,48,48,48,44,49,52,50,51,44,49,46,48,48,52>>>>,
     <<"ProbeReading", <<49,52,46,48,48,48,44,52,51,52,46,48,53,48,44,49,50,44,49,50,51,52>>>>,
     <<"ProbeReading", <<49,48,46,53,44,54,44,55,44,54,46,53,46,53>>>>, <<"ProbeReading", <<49,44,48,44,49,44,45,120>>>>,
     <<"ProbeReading", <<53,46,48,48,48,44>>>>, <<"ProbeReading", <<49,44,48,44>>>>, <<"ProbeReading", <<49,52,46,49,98>>>>}

\* the decoders whose payload is "?<TAG>," and fields
TaggedTypes ==
    {"CalibrationStatus", "CompensationValue", "DeviceInfo", "DeviceStatus",
     "ExportedInfo", "ProtocolLockStatus", "LedStatus", "ProbeType"}

\* the prefix a decoder asks for: response.starts_with(..)
Prefix(ty) ==
    CASE ty = "CalibrationStatus" -> <<63,67,65,76,44>>
      [] ty = "CompensationValue" -> <<63,84,44>>
      [] ty = "DeviceInfo" -> <<63,73,44>>
      [] ty = "DeviceStatus" -> <<63,83,84,65,84,85,83,44>>
      [] ty = "ExportedInfo" -> <<63,69,88,80,79,82,84,44>>
      [] ty = "ProtocolLockStatus" -> <<63,80,76,79,67,75,44>>
      [] ty = "LedStatus" -> <<63,76,44>>
      [] ty = "ProbeType" -> <<63,75,44>>
      [] ty = "OutputStringStatus" -> <<63,79,44>>

\* the longest list of fields after a prefix that is tried
MaxArgs == 3

\* what stands between the commas after the prefix of a decoder
FieldTexts(ty) ==
    CASE ty = "CalibrationStatus" -> {<<48>>, <<49>>, <<50>>, <<51>>, <<>>, <<48,49>>}
      [] ty = "CompensationValue" -> {<<49,52,46,53,54>>, <<49,46,50>>, <<52,51>>, <<>>, <<88,46,48,48>>, <<45,53>>}
      [] ty = "DeviceInfo" -> {<<69,67>>, <<50,46,49,48>>, <<>>, <<97>>}
      [] ty = "DeviceStatus" -> {<<80>>, <<83>>, <<66>>, <<87>>, <<85>>, <<88>>, <<112>>, <<>>, <<49,46,53>>, <<51,46,49,53>>}
      [] ty = "ExportedInfo" ->
           {<<48>>, <<49,48>>, <<49,50,48>>, <<48,48,55>>, <<43,55>>, <<54,53,53,51,53>>, <<54,53,53,51,54>>, <<45,49>>, <<120>>, <<>>}
      [] ty = "ProtocolLockStatus" -> {<<48>>, <<49>>, <<98>>, <<53,55>>, <<>>}
      [] ty = "LedStatus" -> {<<48>>, <<49>>, <<49,55>>, <<98>>, <<>>}
      [] ty = "ProbeType" -> {<<48,46,49>>, <<49,46,48>>, <<49,48,46,48>>, <<49>>, <<52>>, <<>>}

\* a prefix, and what a payload has in its place when the prefix is not
\* there: nothing, lower case, no comma, no question mark
PrefixTexts(ty) ==
    LET p == Prefix(ty)
    IN  {p, <<>>, to_ascii_lowercase(p), SubSeq(p, 1, Len(p) - 1), Tail(p)}

\* the payloads that are tried on Exported::parse: the marker, texts with
\* an asterisk, and texts of 0 to 15 characters
ExportedTexts ==
    {<<42,68,79,78,69>>, <<42>>, <<42,68,79,78,69,42>>, <<42,42,68,79,78,69>>, <<42,100,111,110,101>>, <<68,79,78,69>>, <<42,49,50,51,52,53,54,55,56,57,48,49,50>>,
     <<49,50,51,52,53,54,55,56,57,48,49,50,51,52,53,54,55,56,57,48>>}
    \cup {SubSeq(<<49,50,51,52,53,54,55,56,57,48,49,50,51,52,53>>, 1, n) : n \in 0..15}
    \cup {SubSeq(<<65,42,44,63,0,32,120,52,70,48,66,122,36,46,57,45>>, 1, n) : n \in 0..15}

DecodeInputs ==
    {<<"OutputStringStatus", <<63,79,44>> \o join(t, <<44>>)>> :
        t \in UNION {[1..n -> OutputTokens] : n \in 1..MaxTokens}}
    \cup {<<"ProbeReading", join(t, <<44>>)>> :
        t \in UNION {[1..n -> ReadingFields] : n \in 1..MaxFields}}
    \cup UNION {{<<ty, p \o join(t, <<44>>)>> :
                    p \in PrefixTexts(ty),
                    t \in UNION {[1..n -> FieldTexts(ty)] : n \in 1..MaxArgs}} :
                ty \in TaggedTypes}
    \cup {<<"Exported", x>> : x \in ExportedTexts}
    \cup DecodeTexts

\* a payload is about to be decoded, or a value to be written
DecodeInit ==
    /\ RunIdle
    /\ CatalogIdle
    /\ \/ call \in {Calling("parse", x[1], x[2]) : x \in DecodeInputs}
       \/ call \in {Calling("to_string", v[1], v) : v \in OutputStringStatusValues}
    /\ ret = None

\* the call made last has not returned
Pending(fn) == Len(call) = Len(ret) + 1 /\ call[Len(call)].fn = fn

\* <Type>::parse(response)
Parse ==
    /\ Pending("parse")
    /\ ret' = Append(ret, parse(call[Len(call)].ty, call[Len(call)].arg))
    /\ UNCHANGED call
    /\ UNCHANGED runVars
    /\ UNCHANGED catVars

\* value.to_string()
WriteString ==
    /\ Pending("to_string")
    /\ ret' = Append(ret, OutputStringStatus_to_string(call[Len(call)].arg))
    /\ UNCHANGED call
    /\ UNCHANGED runVars
    /\ UNCHANGED catVars

\* OutputStringStatus::parse of "?O," and what to_string returned
ParseWritten ==
    /\ Len(call) = 1 /\ Len(ret) = 1
    /\ call[1].fn = "to_string"
    /\ call' = Append(call, Calling("parse", call[1].ty, <<63,79,44>> \o ret[1])[1])
    /\ UNCHANGED ret
    /\ UNCHANGED runVars
    /\ UNCHANGED catVars

\* to_string of the value that OutputStringStatus::parse returned
WriteParsed ==
    /\ Len(call) = 1 /\ Len(ret) = 1
    /\ call[1].fn = "parse" /\ call[1].ty = "OutputStringStatus"
    /\ ret[1].ok
    /\ call' = Append(call, Calling("to_string", call[1].ty, ret[1].val)[1])
    /\ UNCHANGED ret
    /\ UNCHANGED runVars
    /\ UNCHANGED catVars

DecodeNext ==
    \/ Parse
    \/ WriteString
    \/ ParseWritten
    \/ WriteParsed

SpecDecode == DecodeInit /\ [][DecodeNext]_vars

\* the k-th call was parse of type ty and has returned
Parsed(k, ty) ==
    Len(ret) >= k /\ call[k].fn = "parse" /\ call[k].ty = ty

\* the k-th call was to_string and has returned
Written(k) == Len(ret) >= k /\ call[k].fn = "to_string"

\* the place of a token in the order EC < TDS < S < SG, 0 for any other text
Rank(token) ==
    CASE token = <<69,67>> -> 1
      [] token = <<84,68,83>> -> 2
      [] token = <<83>> -> 3
      [] token = <<83,71>> -> 4
      [] OTHER -> 0

\* a list of tokens is a selection of EC, TDS, S, SG in that order, each
\* at most once
StrictSelection(tokens) ==
    /\ \A k \in 1..Len(tokens) : Rank(tokens[k]) > 0
    /\ \A j, k \in 1..Len(tokens) : j < k => Rank(tokens[j]) < Rank(tokens[k])

\* C17 (as claimed): OutputStringStatus::parse returns the error
\* ResponseParse for a payload "?O,<tokens>" whose tokens are not a
\* selection of EC, TDS, S, SG in that order without repeats ("No output"
\* alone aside): out of order, repeated, unknown or empty tokens, tokens
\* after "No output".
C17_OnlyCanonicalOrder ==
    (Parsed(1, "OutputStringStatus") /\ starts_with(call[1].arg, <<63,79,44>>)) =>
        LET tokens == split(get_from(call[1].arg, 3), 44)
        IN  (~StrictSelection(tokens) /\ tokens # <<<<78,111,32,111,117,116,112,117,116>>>>) => ret[1] = ParseErr

\* C18: to_string of each of the 16 values of OutputStringStatus is
\* "No output" when nothing is on, and otherwise the tokens of what is on,
\* separated by commas, in the order EC, TDS, S, SG; parse of "?O," and that
\* string returns the value.
C18_WriteThenParse ==
    /\ Written(1) =>
        LET on     == {k \in 1..4 : call[1].arg[3][k] = "On"}
            tokens == split(ret[1], 44)
        IN  IF on = {} THEN ret[1] = <<78,111,32,111,117,116,112,117,116>>
            ELSE /\ StrictSelection(tokens)
                 /\ {Rank(tokens[k]) : k \in 1..Len(tokens)} = on
    /\ (Written(1) /\ Parsed(2, "OutputStringStatus")) =>
        /\ call[2].arg = <<63,79,44>> \o ret[1]
        /\ ret[2] = ParseOk(call[1].arg)

\* a value with two outputs on, or the value with none, was written and
\* parsed again
C18_Witness ==
    /\ Written(1) /\ Parsed(2, "OutputStringStatus")
    /\ ret[1] \in {<<84,68,83,44,83,71>>, <<78,111,32,111,117,116,112,117,116>>}
    /\ ret[2].ok

\* C19 (as claimed): to_string of the value that OutputStringStatus::parse
\* returned for a payload is the payload without its "?O,".
C19_ParseThenWrite ==
    (Parsed(1, "OutputStringStatus") /\ Written(2)) =>
        ret[2] = get_from(call[1].arg, 3)

\* C20 (as claimed): ProbeReading::parse of n fields that are numbers,
\* separated by commas, returns None for n = 0 (the empty payload),
\* OneParameter .. FourParameters for n = 1 .. 4 with the n values in
\* order, and the error ResponseParse for n >= 5.
C20_ShapeFromCount ==
    Parsed(1, "ProbeReading") =>
        LET fields  == IF call[1].arg = <<>> THEN <<>> ELSE split(call[1].arg, 44)
            n       == Len(fields)
            values  == [k \in 1..n |-> F64FromStr(fields[k])[1]]
            variant == CASE n = 0 -> "None"
                         [] n = 1 -> "OneParameter"
                         [] n = 2 -> "TwoParameters"
                         [] n = 3 -> "ThreeParameters"
                         [] n = 4 -> "FourParameters"
                         [] OTHER -> "ResponseParse"
        IN  (\A k \in 1..n : F64FromStr(fields[k]) # None) =>
                IF n >= 5 THEN ret[1] = ParseErr
                ELSE ret[1] = ParseOk(<<"ProbeReading", variant, values>>)

\* the fields of a payload: what stands between its commas
Fields(payload) == split(payload, 44)

\* a field is a number as f64::from_str reads one
Numeric(field) == F64FromStr(field) # None

\* C21: ProbeReading::parse returns an error whenever a field of the payload
\* is empty or no number, so for "", ",", "5.000," and "1,0,"; a trailing
\* comma is not let through, and no payload gives the variant None.
C21_EmptyOrNonNumericIsError ==
    Parsed(1, "ProbeReading") =>
        /\ (\E k \in 1..Len(Fields(call[1].arg)) :
               Fields(call[1].arg)[k] = <<>> \/ ~Numeric(Fields(call[1].arg)[k]))
           => ret[1] = ParseErr
        /\ call[1].arg \in {<<>>, <<44>>, <<53,46,48,48,48,44>>, <<49,44,48,44>>} => ret[1] = ParseErr
        /\ (call[1].arg # <<>> /\ call[1].arg[Len(call[1].arg)] = 44) => ret[1] = ParseErr
        /\ ret[1].ok => ret[1].val[2] # "None"

\* a payload that ends in a comma after a number was refused
C21_Witness ==
    /\ Parsed(1, "ProbeReading")
    /\ call[1].arg \in {<<53,46,48,48,48,44>>, <<49,44,48,44>>}
    /\ ret[1] = ParseErr

\* C22: CalibrationStatus::parse returns NotCalibrated for "?CAL,0",
\* OnePoint for "?CAL,1", TwoPoint for "?CAL,2", and the error ResponseParse
\* for every other payload: no prefix, another digit, an empty field, a
\* further field or comma.
C22_CalibrationStatus ==
    Parsed(1, "CalibrationStatus") =>
        ret[1] = CASE call[1].arg = <<63,67,65,76,44,48>> ->
                        ParseOk(<<"CalibrationStatus", "NotCalibrated", <<>>>>)
                   [] call[1].arg = <<63,67,65,76,44,49>> ->
                        ParseOk(<<"CalibrationStatus", "OnePoint", <<>>>>)
                   [] call[1].arg = <<63,67,65,76,44,50>> ->
                        ParseOk(<<"CalibrationStatus", "TwoPoint", <<>>>>)
                   [] OTHER -> ParseErr

\* "?CAL,1," was refused
C22_Witness ==
    /\ Parsed(1, "CalibrationStatus")
    /\ call[1].arg = <<63,67,65,76,44,49,44>>
    /\ ret[1] = ParseErr

\* C23: DeviceStatus::parse accepts the payloads "?STATUS,<code>,<voltage>"
\* with a code of P, S, B, W, U, read as PoweredOff, SoftwareReset,
\* BrownOut, Watchdog, Unknown, and a voltage that is a number; it returns
\* the error ResponseParse for any other payload: another code, no voltage
\* or one that is no number, no prefix, a further field.
C23_DeviceStatus ==
    Parsed(1, "DeviceStatus") =>
        LET fields == Fields(get_from(call[1].arg, 8))
            reason(code) ==
                CASE code = <<80>> -> "PoweredOff"
                  [] code = <<83>> -> "SoftwareReset"
                  [] code = <<66>> -> "BrownOut"
                  [] code = <<87>> -> "Watchdog"
                  [] code = <<85>> -> "Unknown"
            form ==
                /\ Len(call[1].arg) >= 8
                /\ SubSeq(call[1].arg, 1, 8) = <<63,83,84,65,84,85,83,44>>
                /\ Len(fields) = 2
                /\ fields[1] \in {<<80>>, <<83>>, <<66>>, <<87>>, <<85>>}
                /\ Numeric(fields[2])
        IN  IF form
            THEN ret[1] = ParseOk(<<"DeviceStatus", reason(fields[1]),
                                    <<F64FromStr(fields[2])[1]>>>>)
            ELSE ret[1] = ParseErr

\* "?STATUS,W,3.15" was read as Watchdog with 3.15 volts
C23_Witness ==
    /\ Parsed(1, "DeviceStatus")
    /\ call[1].arg = <<63,83,84,65,84,85,83,44,87,44,51,46,49,53>>
    /\ ret[1] = ParseOk(<<"DeviceStatus", "Watchdog", <<F64(315, 0 - 2)>>>>)

\* C24: Exported::parse returns Done for the payload "*DONE" and the error
\* ResponseParse for any other payload that starts with '*'; for a payload
\* that does not start with '*' it returns ExportString(payload) when the
\* length is 1 to 12, and ResponseParse when it is 0 or 13 and more.
C24_Exported ==
    Parsed(1, "Exported") =>
        LET p == call[1].arg
        IN  ret[1] = CASE p = <<42,68,79,78,69>> -> ParseOk(<<"Exported", "Done", <<>>>>)
                       [] p # <<42,68,79,78,69>> /\ p # <<>> /\ p[1] = 42 -> ParseErr
                       [] p # <<>> /\ p[1] # 42 /\ Len(p) <= 12 ->
                            ParseOk(<<"Exported", "ExportString", <<p>>>>)
                       [] OTHER -> ParseErr

\* a payload of 12 characters was returned as an export string
C24_Witness ==
    /\ Parsed(1, "Exported")
    /\ Len(call[1].arg) = 12
    /\ ret[1] = ParseOk(<<"Exported", "ExportString", <<call[1].arg>>>>)

\* C25: ExportedInfo::parse accepts the payloads
\* "?EXPORT,<lines>,<total_bytes>" whose two fields are decimal numbers of
\* 0..65535 (digits, as u16::from_str reads them) and returns the two
\* numbers; a number above 65535, a negative field or one that is no
\* number, one field, three fields or no prefix give the error
\* ResponseParse, never a number cut to 16 bits.
C25_ExportedInfo ==
    Parsed(1, "ExportedInfo") =>
        LET fields == Fields(get_from(call[1].arg, 8))
            digits(f) == IF f # <<>> /\ f[1] = 43 THEN Tail(f) ELSE f
            count(f) == DecimalValue(strip_leading_zeros(digits(f)))
            inrange(f) ==
                /\ IsDigits(digits(f))
                /\ Len(strip_leading_zeros(digits(f))) <= 5
                /\ count(f) <= 65535
            form ==
                /\ Len(call[1].arg) >= 8
                /\ SubSeq(call[1].arg, 1, 8) = <<63,69,88,80,79,82,84,44>>
                /\ Len(fields) = 2
                /\ inrange(fields[1])
                /\ inrange(fields[2])
        IN  IF form
            THEN ret[1] = ParseOk(<<"ExportedInfo", "", <<count(fields[1]), count(fields[2])>>>>)
            ELSE ret[1] = ParseErr

\* the largest count was returned, and not as a smaller number
C25_Witness ==
    /\ Parsed(1, "ExportedInfo")
    /\ call[1].arg = <<63,69,88,80,79,82,84,44,49,48,44,54,53,53,51,53>>
    /\ ret[1] = ParseOk(<<"ExportedInfo", "", <<10, 65535>>>>)

\* C26: DeviceInfo::parse accepts the payloads that are "?I," and two
\* fields with one comma between them, and returns the two fields as they
\* are, empty ones too; one field, three or more fields, or no prefix give
\* the error ResponseParse.
C26_DeviceInfo ==
    Parsed(1, "DeviceInfo") =>
        LET fields == Fields(get_from(call[1].arg, 3))
            form ==
                /\ Len(call[1].arg) >= 3
                /\ SubSeq(call[1].arg, 1, 3) = <<63,73,44>>
                /\ Len(fields) = 2
        IN  IF form
            THEN ret[1] = ParseOk(<<"DeviceInfo", "", <<fields[1], fields[2]>>>>)
            ELSE ret[1] = ParseErr

\* "?I,," gave two empty strings
C26_Witness ==
    /\ Parsed(1, "DeviceInfo")
    /\ call[1].arg = <<63,73,44,44>>
    /\ ret[1] = ParseOk(<<"DeviceInfo", "", <<<<>>, <<>>>>>>)

\* the decoders of one value after a prefix
SingleValueTypes == {"ProbeType", "LedStatus", "ProtocolLockStatus", "CompensationValue"}

\* C27: ProbeType ("?K," and 0.1, 1.0 or 10.0), LedStatus ("?L," and 0 or
\* 1), ProtocolLockStatus ("?PLOCK," and 0 or 1) and CompensationValue
\* ("?T," and one number) return the error ResponseParse when the payload
\* does not start with the prefix as written, when the value is empty or
\* not an allowed one, and when a further field or a comma follows the
\* value; they return a value otherwise.
C27_SingleValueDecoders ==
    \A ty \in SingleValueTypes :
        Parsed(1, ty) =>
            LET p == call[1].arg
                n == Len(Prefix(ty))
                value == SubSeq(p, n + 1, Len(p))
                allowed ==
                    CASE ty = "ProbeType" -> value \in {<<48,46,49>>, <<49,46,48>>, <<49,48,46,48>>}
                      [] ty = "LedStatus" -> value \in {<<48>>, <<49>>}
                      [] ty = "ProtocolLockStatus" -> value \in {<<48>>, <<49>>}
                      [] ty = "CompensationValue" ->
                           (\A i \in 1..Len(value) : value[i] # 44) /\ Numeric(value)
                form == Len(p) >= n /\ SubSeq(p, 1, n) = Prefix(ty) /\ allowed
            IN  IF form THEN ret[1].ok ELSE ret[1] = ParseErr

\* a payload with a further field after an allowed value was refused
C27_Witness ==
    /\ \E ty \in SingleValueTypes : Parsed(1, ty)
    /\ call[1].arg \in {<<63,75,44,49,46,48,44>>, <<63,76,44,49,44,48>>, <<63,80,76,79,67,75,44,49,44>>, <<63,84,44,49,46,50,44,52,51>>}
    /\ ret[1] = ParseErr

\* C28 (as claimed): ConductivityCommand::build returns options for every
\* variant, it never panics; the command string ends in a nul, and the
\* string, delay and response are those of the tests: Reading gives
\* ("R\0", Some(600), Some(Reading)), LedOn ("L,1\0", Some(300), Some(Ack)),
\* Status ("Status\0", Some(300), Some(Status)), Sleep ("Sleep\0", None,
\* None).
C28_BuildNeverPanics ==
    cmd_options # None =>
        /\ cmd_options[1][1] = "Ok"
        /\ LET o == cmd_options[1][2]
               expected ==
                   CASE cmd.tag = "Reading" ->
                          [command |-> <<82,0>>, delay |-> Some(600), response |-> Some("Reading")]
                     [] cmd.tag = "LedOn" ->
                          [command |-> <<76,44,49,0>>, delay |-> Some(300), response |-> Some("Ack")]
                     [] cmd.tag = "Status" ->
                          [command |-> <<83,116,97,116,117,115,0>>, delay |-> Some(300), response |-> Some("Status")]
                     [] cmd.tag = "Sleep" ->
                          [command |-> <<83,108,101,101,112,0>>, delay |-> None, response |-> None]
                     [] OTHER -> o
           IN  /\ o.command # <<>> /\ o.command[Len(o.command)] = 0
               /\ o = expected

\* a run is under way
Running == pc \notin {"idle", "done"}

\* C29: run keeps no state between commands.  While a run is under way the
\* options it was called on stay as they are; and a run that is entered,
\* first or after any other run however that one ended, starts from the
\* same state for the same options (a zeroed buffer, nothing written, read
\* or slept yet, no result), so what it does next depends on the options
\* and on what the transport returns in this run only.
C29_StatelessBetweenRuns ==
    [][/\ Running => self' = self
       /\ (~Running /\ pc' = "write") =>
              /\ data_buffer' = ZeroBuffer(MAX_RESPONSE_LENGTH)
              /\ data' = <<>>
              /\ result' = None
              /\ trace' = <<>>
              /\ stdout' = <<Line("COMMAND", self'.command)>>]_vars

\* a run has ended in an error after it read a response, and the next run
\* can be entered
C29_Witness ==
    /\ pc = "done"
    /\ result # None /\ ~result[1].ok
    /\ \E i \in DOMAIN data_buffer : data_buffer[i] # 0
    /\ ENABLED (\E opts \in RunOptions : Call(opts))

\* the buffers a read of MAX_RESPONSE_LENGTH bytes can return
ResponseBuffers == ReadData(MAX_RESPONSE_LENGTH)

\* a step of the run that is under way: every transport call returns, with
\* success or failure, and the thread goes on
RunStep ==
    \/ \E ok \in BOOLEAN : Write(ok)
    \/ \E ok \in BOOLEAN : WriteRetry(ok)
    \/ Delay
    \/ pc = "read" /\ \E ok \in BOOLEAN, buf \in ResponseBuffers : Read(ok, buf)
    \/ pc = "read_retry" /\ \E ok \in BOOLEAN, buf \in ResponseBuffers : ReadRetry(ok, buf)
    \/ StatusCheck

\* runs whose transport calls and sleeps return
SpecFair == Init /\ [][Next]_vars /\ WF_vars(RunStep)

\* the sleeps of the run so far
Sleeps == {i \in 1..Len(trace) : trace[i].op = "sleep"}

\* the sleeps before a write: the backoff of the write phase
WriteBackoffs == {i \in Sleeps : \E w \in Writes : i < w}

\* the sleeps after a read: the backoff of the read phase
ReadBackoffs == {i \in Sleeps : \E r \in Reads : r < i}

\* the sleeps after the writes and before the reads: the command delay
DelaySleeps == Sleeps \ (WriteBackoffs \cup ReadBackoffs)

\* what C30 allows a run to have done
RunBounds ==
    /\ Cardinality(Writes) <= 2
    /\ Cardinality(Reads) <= 2
    /\ Cardinality(WriteBackoffs) <= 1
    /\ Cardinality(ReadBackoffs) <= 1
    /\ \A i \in WriteBackoffs \cup ReadBackoffs : trace[i].ms = 300
    /\ Cardinality(DelaySleeps) <= 1
    /\ \A i \in DelaySleeps : self.delay = Some(trace[i].ms)

\* C30: every call of run returns, provided each transport call returns;
\* a run makes at most 2 writes and at most 2 reads, sleeps at most once
\* for 300 ms in the write phase and at most once in the read phase, and
\* sleeps at most once for the delay of the command, whatever succeeds or
\* fails.
C30_RunTerminatesBounded ==
    /\ []RunBounds
    /\ Running ~> pc = "done"

\* a run has returned after 2 writes, the delay, 2 reads and both backoffs
C30_Witness ==
    /\ pc = "done"
    /\ Cardinality(Writes) = 2
    /\ Cardinality(Reads) = 2
    /\ Cardinality(WriteBackoffs) = 1
    /\ Cardinality(ReadBackoffs) = 1
    /\ Cardinality(DelaySleeps) = 1

====
